---- MODULE Spec2Model ----
(***************************************************************************)
(* A model of the capstone text adventure (lesson 35): the two-pass world  *)
(* loader, the room graph, the table-driven command dispatcher and the     *)
(* game session driven by main(); and of the multithreaded file analyzer   *)
(* (lesson 30): main, its NUM_THREADS workers and the mutex around the     *)
(* shared totals; of the tiny shell (lesson 29): its read-parse-fork-exec-  *)
(* wait loop, run by the shell process and inherited by a forked child;    *)
(* and of the line editor (lesson 25): its doubly-linked list of lines on  *)
(* a heap of nodes.  Each program has its own variables and its own        *)
(* specification; the variables of the other programs stay as they are.    *)
(*                                                                         *)
(* Text is modelled as text: a map file is a sequence of lines, a line and *)
(* an input are strings, and sscanf, strncmp, strtok and tolower are       *)
(* computed character by character.  A Room pointer is the position of the *)
(* room in all_rooms (1..num_rooms); NULL is 0.                            *)
(*                                                                         *)
(* Environment assumptions: malloc and strdup succeed; every line of a map *)
(* file is shorter than the 512-byte fgets buffer and is given without its *)
(* trailing newline; a direction field of a link line is shorter than      *)
(* dir_str[10]; integers in the file fit an int.                           *)
(***************************************************************************)
EXTENDS Integers, Sequences, FiniteSets, TLC

VARIABLES
    argc,              \* main's argument count
    file_exists,       \* whether fopen(argv[1]) succeeds
    file,              \* the lines of the map file
    stdin,             \* the input lines not yet typed
    pc,                \* position of main: "main", "loaded", "loop", "exited"
    exit_code,         \* main's return value (-1 while running)
    game,              \* the GameState pointer: "NULL", "live" or "freed"
    all_rooms,         \* game->all_rooms[0 .. num_rooms-1]
    current_room,      \* game->player.current_room
    game_should_close, \* game->game_should_close
    log_messages,      \* game->log_messages[0 .. log_count-1]
    input_buffer,      \* game_loop's input_buffer, as left by the last dispatch
    logged,            \* history: every message passed to ui_log, oldest first
    fopen_called,      \* history: load_world has called fopen
    log_ptrs,          \* the strdup allocation held by each entry of log_messages
    freed              \* history: the strdup allocations passed to free, in order

\* the multithreaded file analyzer (lesson 30)
VARIABLES
    an_argc,           \* main's argument count
    an_file_exists,    \* whether fopen(argv[1]) succeeds
    file_buffer,       \* the bytes of the file
    an_pc,             \* position of main: "main", "create", "join", "exited"
    an_exit_code,      \* main's return value (-1 while running)
    created,           \* the index i of the pthread_create loop
    joined,            \* the index i of the pthread_join loop
    thread_args,       \* thread_args[i]: data_chunk (offset in file_buffer), chunk_size
    t_pc,              \* position of each worker in analyze_chunk
    local,             \* each worker's local_chars, local_words, local_lines
    reg,               \* each worker's register during a += on g_counts
    g_counts,          \* the shared totals
    g_mutex            \* "none", "free", "destroyed" or the worker that holds it

\* the tiny shell (lesson 29); a process is "shell" or "child"
VARIABLES
    sh_stdin,          \* the input lines no process has read yet
    p_pc,              \* position of each process in main
    p_args,            \* each process's args[], up to its terminating NULL
    p_should_run,      \* each process's should_run
    p_status,          \* each process's exit status (-1 while it runs)
    prompts,           \* history: the number of prompts each process has printed
    reads,             \* history: the number of fgets calls each process has made
    forks              \* history: the number of successful forks

\* the line editor (lesson 25)
VARIABLES
    ed_pc,             \* position of main: "loop" or "exited"
    heap,              \* the Line nodes: used, text, prev, next
    head,              \* the first line, or NULL
    tail,              \* the last line, or NULL
    line_count,        \* the number of lines
    modified,          \* the buffer differs from the file
    ed_last            \* history: the last call made on the buffer

adventure_vars ==
    <<argc, file_exists, file, stdin, pc, exit_code, game, all_rooms,
      current_room, game_should_close, log_messages, input_buffer, logged,
      fopen_called, log_ptrs, freed>>

shell_vars ==
    <<sh_stdin, p_pc, p_args, p_should_run, p_status, prompts, reads, forks>>

editor_vars == <<ed_pc, heap, head, tail, line_count, modified, ed_last>>

analyzer_vars ==
    <<an_argc, an_file_exists, file_buffer, an_pc, an_exit_code, created,
      joined, thread_args, t_pc, local, reg, g_counts, g_mutex>>

vars == <<adventure_vars, analyzer_vars, shell_vars, editor_vars>>

-----------------------------------------------------------------------------
(* Program constants *)

MAX_DIRECTIONS == 4
MAX_ROOMS == 100
MAX_LOG_MESSAGES == 10

NORTH == 0
SOUTH == 1
EAST == 2
WEST == 3

NULL == 0

\* the analyzer's number of worker threads
NUM_THREADS == 4

\* the tiny shell's bound on the length of args[]
MAX_ARGS == 20

(* Bounds of the model *)

\* the longest map file drawn from the candidate lines
MaxLines == 3
\* the longest input script of a play session
MaxCmds == 3
\* the largest file the analyzer is given, in bytes
MaxBytes == 4
\* the longest input script of the tiny shell
MaxShellCmds == 3
\* the most lines the editor's buffer is let grow to
MaxEdLines == 3

-----------------------------------------------------------------------------
(* Characters and strings *)

Ch(s, i) == SubSeq(s, i, i)

IsSpace(c) == c = " " \/ c = "\n" \/ c = "\t"

Digits == <<"0", "1", "2", "3", "4", "5", "6", "7", "8", "9">>

IsDigit(c) == \E d \in 1..10 : Digits[d] = c

DigitVal(c) == (CHOOSE d \in 1..10 : Digits[d] = c) - 1

\* tolower() on the characters the inputs use
Uppers == <<"G", "O", "N", "R", "T", "H", "Q", "U", "I", "L", "K">>
Lowers == <<"g", "o", "n", "r", "t", "h", "q", "u", "i", "l", "k">>

tolower(c) ==
    IF \E k \in 1..Len(Uppers) : Uppers[k] = c
    THEN Lowers[CHOOSE k \in 1..Len(Uppers) : Uppers[k] = c]
    ELSE c

\* strncmp(s, kw, Len(kw)) == 0
strncmp_eq(s, kw) == Len(s) >= Len(kw) /\ SubSeq(s, 1, Len(kw)) = kw

\* the first position >= i of s that holds no white space (Len(s)+1 if none)
RECURSIVE skip_ws(_, _)
skip_ws(s, i) ==
    IF i <= Len(s) /\ IsSpace(Ch(s, i)) THEN skip_ws(s, i + 1) ELSE i

\* the first position >= i of s that holds white space (Len(s)+1 if none)
RECURSIVE skip_word(_, _)
skip_word(s, i) ==
    IF i <= Len(s) /\ ~IsSpace(Ch(s, i)) THEN skip_word(s, i + 1) ELSE i

\* the first position >= i of s that holds a double quote (Len(s)+1 if none)
RECURSIVE skip_to_quote(_, _)
skip_to_quote(s, i) ==
    IF i <= Len(s) /\ Ch(s, i) # "\"" THEN skip_to_quote(s, i + 1) ELSE i

\* the first position >= i of s that holds no digit (Len(s)+1 if none)
RECURSIVE skip_digits(_, _)
skip_digits(s, i) ==
    IF i <= Len(s) /\ IsDigit(Ch(s, i)) THEN skip_digits(s, i + 1) ELSE i

\* the value of the digits s[i .. j-1], most significant first
RECURSIVE digits_value(_, _, _, _)
digits_value(s, i, j, acc) ==
    IF i >= j THEN acc ELSE digits_value(s, i + 1, j, 10 * acc + DigitVal(Ch(s, i)))

\* The conversion %d at position i: white space, an optional sign, digits.
\* b is where the white space ends, d where the digits start, e where they end.
scan_d_value(s, i, b, d, e) ==
    IF e = d
    THEN [ok |-> FALSE, val |-> 0, next |-> i]
    ELSE [ok |-> TRUE,
          val |-> IF Ch(s, b) = "-"
                  THEN 0 - digits_value(s, d, e, 0)
                  ELSE digits_value(s, d, e, 0),
          next |-> e]

scan_d_digits(s, i, b, d) == scan_d_value(s, i, b, d, skip_digits(s, d))

scan_d_sign(s, i, b) ==
    scan_d_digits(s, i, b,
        IF b <= Len(s) /\ (Ch(s, b) = "-" \/ Ch(s, b) = "+") THEN b + 1 ELSE b)

scan_d(s, i) == scan_d_sign(s, i, skip_ws(s, i))

\* The conversion %s at position i: white space, then the characters up to
\* the next white space (b .. e-1).
scan_s_word(s, i, b, e) ==
    IF e = b
    THEN [ok |-> FALSE, val |-> "", next |-> i]
    ELSE [ok |-> TRUE, val |-> SubSeq(s, b, e - 1), next |-> e]

scan_s_start(s, i, b) == scan_s_word(s, i, b, skip_word(s, b))

scan_s(s, i) == scan_s_start(s, i, skip_ws(s, i))

\* The conversion %[^"] at position i: at least one character, up to the
\* next double quote (i .. e-1); no white space is skipped.
scan_notquote_end(s, i, e) ==
    IF e = i
    THEN [ok |-> FALSE, val |-> "", next |-> i]
    ELSE [ok |-> TRUE, val |-> SubSeq(s, i, e - 1), next |-> e]

scan_notquote(s, i) == scan_notquote_end(s, i, skip_to_quote(s, i))

\* sscanf(line, "room %d \"%[^\"]\"", &id, desc): the number of conversions
\* made, and their values.  a is the %d conversion, q the position after the
\* white space that follows it, t the %[^"] conversion.
sscanf_room_desc(a, t) ==
    IF ~t.ok
    THEN [n |-> 1, id |-> a.val, desc |-> ""]
    ELSE [n |-> 2, id |-> a.val, desc |-> t.val]

sscanf_room_quote(line, a, q) ==
    IF ~(q <= Len(line) /\ Ch(line, q) = "\"")
    THEN [n |-> 1, id |-> a.val, desc |-> ""]
    ELSE sscanf_room_desc(a, scan_notquote(line, q + 1))

sscanf_room_id(line, a) ==
    IF ~a.ok
    THEN [n |-> 0, id |-> 0, desc |-> ""]
    ELSE sscanf_room_quote(line, a, skip_ws(line, a.next))

sscanf_room(line) ==
    IF ~strncmp_eq(line, "room")
    THEN [n |-> 0, id |-> 0, desc |-> ""]
    ELSE sscanf_room_id(line, scan_d(line, 5))

\* sscanf(line, "link %d %s %d", &from_id, dir_str, &to_id): a, b and c are
\* the three conversions.
sscanf_link_to(a, b, c) ==
    IF ~c.ok
    THEN [n |-> 2, from_id |-> a.val, dir_str |-> b.val, to_id |-> 0]
    ELSE [n |-> 3, from_id |-> a.val, dir_str |-> b.val, to_id |-> c.val]

sscanf_link_dir(line, a, b) ==
    IF ~b.ok
    THEN [n |-> 1, from_id |-> a.val, dir_str |-> "", to_id |-> 0]
    ELSE sscanf_link_to(a, b, scan_d(line, b.next))

sscanf_link_from(line, a) ==
    IF ~a.ok
    THEN [n |-> 0, from_id |-> 0, dir_str |-> "", to_id |-> 0]
    ELSE sscanf_link_dir(line, a, scan_s(line, a.next))

sscanf_link(line) ==
    IF ~strncmp_eq(line, "link")
    THEN [n |-> 0, from_id |-> 0, dir_str |-> "", to_id |-> 0]
    ELSE sscanf_link_from(line, scan_d(line, 5))

-----------------------------------------------------------------------------
(* The world model and its loader *)

Directions == 0..(MAX_DIRECTIONS - 1)

\* memset(new_room, 0, sizeof(Room)), then id and description
new_room(id, desc) ==
    [id |-> id, description |-> desc, exits |-> [d \in Directions |-> NULL]]

\* The first room of the collection with this id, or NULL.
find_room_by_id(rooms, id) ==
    IF \E i \in 1..Len(rooms) : rooms[i].id = id
    THEN CHOOSE i \in 1..Len(rooms) :
            rooms[i].id = id /\ \A j \in 1..(i - 1) : rooms[j].id # id
    ELSE NULL

\* parse_room after its sscanf, whose result is r
parse_room_store(rooms, r) ==
    IF r.n # 2 THEN [ok |-> FALSE, rooms |-> rooms]
    ELSE [ok |-> TRUE, rooms |-> Append(rooms, new_room(r.id, r.desc))]

\* a parse_room without the test of num_rooms
parse_room_unbounded(line, rooms) == parse_room_store(rooms, sscanf_room(line))

\* parse_room: [ok, rooms]
parse_room(line, rooms) ==
    IF Len(rooms) >= MAX_ROOMS THEN [ok |-> FALSE, rooms |-> rooms]
    ELSE parse_room_store(rooms, sscanf_room(line))

\* the Direction a link line's direction code names, or -1
link_direction(dir_str) ==
    IF dir_str = "n" THEN NORTH
    ELSE IF dir_str = "s" THEN SOUTH
    ELSE IF dir_str = "e" THEN EAST
    ELSE IF dir_str = "w" THEN WEST
    ELSE -1

\* a link that also sets the way back
set_exit_both_ways(rooms, from_room, dir, to_room) ==
    [rooms EXCEPT ![from_room].exits[dir] = to_room,
                  ![to_room].exits[IF dir = NORTH THEN SOUTH
                                   ELSE IF dir = SOUTH THEN NORTH
                                   ELSE IF dir = EAST THEN WEST
                                   ELSE EAST] = from_room]

\* a link that leaves an exit that is already set as it is
set_exit_keep_first(rooms, from_room, dir, to_room) ==
    IF rooms[from_room].exits[dir] # NULL THEN rooms
    ELSE [rooms EXCEPT ![from_room].exits[dir] = to_room]

\* from_room->exits[dir] = to_room
set_exit(rooms, from_room, dir, to_room) ==
    [rooms EXCEPT ![from_room].exits[dir] = to_room]

\* a link to a missing room is skipped, not failed
parse_link_connect_skip(rooms, from_room, to_room, dir) ==
    IF from_room = NULL \/ to_room = NULL THEN [ok |-> TRUE, rooms |-> rooms]
    ELSE IF dir = -1 THEN [ok |-> FALSE, rooms |-> rooms]
    ELSE [ok |-> TRUE, rooms |-> set_exit(rooms, from_room, dir, to_room)]

\* parse_link once both rooms have been looked up
parse_link_connect(rooms, from_room, to_room, dir) ==
    IF from_room = NULL \/ to_room = NULL THEN [ok |-> FALSE, rooms |-> rooms]
    ELSE IF dir = -1 THEN [ok |-> FALSE, rooms |-> rooms]
    ELSE [ok |-> TRUE, rooms |-> set_exit(rooms, from_room, dir, to_room)]

\* the to id itself is stored as the exit, not the room it names
parse_link_resolve_by_id(rooms, r) ==
    IF r.n # 3 THEN [ok |-> FALSE, rooms |-> rooms]
    ELSE parse_link_connect(rooms, find_room_by_id(rooms, r.from_id),
                            r.to_id, link_direction(r.dir_str))

\* parse_link after its sscanf, whose result is r
parse_link_resolve(rooms, r) ==
    IF r.n # 3 THEN [ok |-> FALSE, rooms |-> rooms]
    ELSE parse_link_connect(rooms, find_room_by_id(rooms, r.from_id),
                            find_room_by_id(rooms, r.to_id), link_direction(r.dir_str))

\* parse_link: [ok, rooms]
parse_link(line, rooms) == parse_link_resolve(rooms, sscanf_link(line))

\* The loops of load_world run over the lines lo..hi of the file with the
\* loop's state p = [ok, rooms]; ok = FALSE once a line has failed, after
\* which load_world has returned and no later line is read.  The range is
\* split in halves, which visits the lines in file order.

\* a pass 1 that rejects a line that starts with neither "room" nor "link"
pass_rooms_line_strict(line, p) ==
    IF ~p.ok THEN p
    ELSE IF strncmp_eq(line, "room") THEN parse_room(line, p.rooms)
    ELSE IF strncmp_eq(line, "link") THEN p
    ELSE [ok |-> FALSE, rooms |-> p.rooms]

\* one iteration of pass 1: a line that starts with "room" is parsed
pass_rooms_line(line, p) ==
    IF ~p.ok THEN p
    ELSE IF strncmp_eq(line, "room") THEN parse_room(line, p.rooms)
    ELSE p

RECURSIVE pass_rooms(_, _, _, _)

\* the lines after mid, p being the state after the lines up to mid
pass_rooms_rest(f, mid, hi, p) ==
    IF ~p.ok THEN p ELSE pass_rooms(f, mid + 1, hi, p)

pass_rooms(f, lo, hi, p) ==
    IF lo > hi THEN p
    ELSE IF lo = hi THEN pass_rooms_line(f[lo], p)
    ELSE pass_rooms_rest(f, (lo + hi) \div 2, hi,
                         pass_rooms(f, lo, (lo + hi) \div 2, p))

\* a link line that fails is passed over
pass_links_line_lenient(line, p) ==
    IF ~p.ok THEN p
    ELSE IF strncmp_eq(line, "link") /\ parse_link(line, p.rooms).ok
         THEN parse_link(line, p.rooms)
         ELSE p

\* one iteration of pass 2: a line that starts with "link" is parsed
pass_links_line(line, p) ==
    IF ~p.ok THEN p
    ELSE IF strncmp_eq(line, "link") THEN parse_link(line, p.rooms)
    ELSE p

RECURSIVE pass_links(_, _, _, _)

\* the lines after mid, p being the state after the lines up to mid
pass_links_rest(f, mid, hi, p) ==
    IF ~p.ok THEN p ELSE pass_links(f, mid + 1, hi, p)

pass_links(f, lo, hi, p) ==
    IF lo > hi THEN p
    ELSE IF lo = hi THEN pass_links_line(f[lo], p)
    ELSE pass_links_rest(f, (lo + hi) \div 2, hi,
                         pass_links(f, lo, (lo + hi) \div 2, p))

\* the end of load_world, p2 being the result of pass 2
load_world_result(p2) ==
    IF ~p2.ok THEN [ok |-> FALSE, rooms |-> <<>>]
    ELSE [ok |-> TRUE, rooms |-> p2.rooms]

\* load_world without the rewind: pass 2 starts at the end of the file
load_world_links_no_rewind(f, p1) ==
    IF ~p1.ok THEN [ok |-> FALSE, rooms |-> <<>>]
    ELSE load_world_result(pass_links(f, Len(f) + 1, Len(f), p1))

\* load_world after pass 1, whose result is p1
load_world_links(f, p1) ==
    IF ~p1.ok THEN [ok |-> FALSE, rooms |-> <<>>]
    ELSE load_world_result(pass_links(f, 1, Len(f), p1))

\* load_world: [ok, rooms]; ok = FALSE is the NULL return, after which the
\* rooms built so far have been freed by cleanup.
load_world(exists, f) ==
    IF ~exists THEN [ok |-> FALSE, rooms |-> <<>>]
    ELSE load_world_links(f, pass_rooms(f, 1, Len(f), [ok |-> TRUE, rooms |-> <<>>]))

-----------------------------------------------------------------------------
(* The session: transcript, handlers and command dispatch.  A handler takes *)
(* and returns the GameState fields                                        *)
(*   [all_rooms, current_room, game_should_close, log_messages];           *)
(* its char* argument is <<>> for a null pointer and <<word>> otherwise.   *)

\* on a full log the newest message makes room instead of the oldest
ui_log_drop_newest(g, message) ==
    LET full == Len(g.log_messages) >= MAX_LOG_MESSAGES
        kept == IF full
                THEN SubSeq(g.log_messages, 1, Len(g.log_messages) - 1)
                ELSE g.log_messages
        kept_ptrs == IF full
                     THEN SubSeq(g.log_ptrs, 1, Len(g.log_ptrs) - 1)
                     ELSE g.log_ptrs
    IN  [g EXCEPT !.log_messages = Append(kept, message),
                  !.log_ptrs = Append(kept_ptrs, Len(g.logged) + 1),
                  !.freed = IF full THEN Append(@, g.log_ptrs[Len(g.log_ptrs)]) ELSE @,
                  !.logged = Append(@, message)]

\* on a full log the oldest message is shifted out without being freed
ui_log_leaky(g, message) ==
    LET full == Len(g.log_messages) >= MAX_LOG_MESSAGES
    IN  [g EXCEPT !.log_messages = Append(IF full THEN Tail(@) ELSE @, message),
                  !.log_ptrs = Append(IF full THEN Tail(@) ELSE @, Len(g.logged) + 1),
                  !.logged = Append(@, message)]

\* ui_log: on a full log the oldest message is freed and the others shift
\* up; the message is stored as a new strdup allocation, named by its
\* number in the order of allocation
ui_log(g, message) ==
    LET full == Len(g.log_messages) >= MAX_LOG_MESSAGES
    IN  [g EXCEPT !.log_messages = Append(IF full THEN Tail(@) ELSE @, message),
                  !.log_ptrs = Append(IF full THEN Tail(@) ELSE @, Len(g.logged) + 1),
                  !.freed = IF full THEN Append(@, Head(g.log_ptrs)) ELSE @,
                  !.logged = Append(@, message)]

direction_to_string(d) ==
    IF d = NORTH THEN "north"
    ELSE IF d = SOUTH THEN "south"
    ELSE IF d = EAST THEN "east"
    ELSE IF d = WEST THEN "west"
    ELSE "unknown"

\* the exits named from west back to north
RECURSIVE exits_str_backwards(_, _, _)
exits_str_backwards(room, i, str) ==
    IF i >= MAX_DIRECTIONS THEN str
    ELSE IF room.exits[MAX_DIRECTIONS - 1 - i] # NULL
         THEN exits_str_backwards(room, i + 1,
                  str \o direction_to_string(MAX_DIRECTIONS - 1 - i) \o " ")
         ELSE exits_str_backwards(room, i + 1, str)

\* the loop of handle_look from direction i on: strcat of each set exit's name
RECURSIVE exits_str(_, _, _)
exits_str(room, i, str) ==
    IF i >= MAX_DIRECTIONS THEN str
    ELSE IF room.exits[i] # NULL
         THEN exits_str(room, i + 1, str \o direction_to_string(i) \o " ")
         ELSE exits_str(room, i + 1, str)

handle_look(g, argument) ==
    LET room == g.all_rooms[g.current_room]
        g1 == ui_log(g, room.description)
        found_exit == \E i \in Directions : room.exits[i] # NULL
    IN  IF found_exit
        THEN ui_log(g1, exits_str(room, 0, "Exits: "))
        ELSE ui_log(g1, "There are no obvious exits.")

\* a quit that leaves the flag as it is
handle_quit_ignored(g, argument) == g

handle_quit(g, argument) == [g EXCEPT !.game_should_close = TRUE]

\* south and east exchanged
go_direction_swapped(word) ==
    IF word = "n" \/ word = "north" THEN NORTH
    ELSE IF word = "s" \/ word = "south" THEN EAST
    ELSE IF word = "e" \/ word = "east" THEN SOUTH
    ELSE IF word = "w" \/ word = "west" THEN WEST
    ELSE -1

\* the Direction a go argument names, or -1
go_direction(word) ==
    IF word = "n" \/ word = "north" THEN NORTH
    ELSE IF word = "s" \/ word = "south" THEN SOUTH
    ELSE IF word = "e" \/ word = "east" THEN EAST
    ELSE IF word = "w" \/ word = "west" THEN WEST
    ELSE -1

\* a missing argument gets no feedback
handle_go_silent(g, argument) ==
    IF argument = <<>> THEN g
    ELSE LET dir == go_direction(argument[1])
         IN  IF dir = -1 THEN ui_log(g, "That's not a valid direction.")
             ELSE LET next_room == g.all_rooms[g.current_room].exits[dir]
                  IN  IF next_room # NULL
                      THEN handle_look([g EXCEPT !.current_room = next_room], <<>>)
                      ELSE ui_log(g, "You can't go that way.")

\* a move without the look that follows it
handle_go_no_look(g, argument) ==
    IF argument = <<>> THEN ui_log(g, "Go where?")
    ELSE LET dir == go_direction(argument[1])
         IN  IF dir = -1 THEN ui_log(g, "That's not a valid direction.")
             ELSE LET next_room == g.all_rooms[g.current_room].exits[dir]
                  IN  IF next_room # NULL
                      THEN [g EXCEPT !.current_room = next_room]
                      ELSE ui_log(g, "You can't go that way.")

\* a word that names no direction is taken for north
handle_go_default_north(g, argument) ==
    IF argument = <<>> THEN ui_log(g, "Go where?")
    ELSE LET dir == IF go_direction(argument[1]) = -1 THEN NORTH
                    ELSE go_direction(argument[1])
             next_room == g.all_rooms[g.current_room].exits[dir]
         IN  IF next_room # NULL
             THEN handle_look([g EXCEPT !.current_room = next_room], <<>>)
             ELSE ui_log(g, "You can't go that way.")

\* the exit taken closes behind the player
handle_go_one_way(g, argument) ==
    IF argument = <<>> THEN ui_log(g, "Go where?")
    ELSE LET dir == go_direction(argument[1])
         IN  IF dir = -1 THEN ui_log(g, "That's not a valid direction.")
             ELSE LET next_room == g.all_rooms[g.current_room].exits[dir]
                  IN  IF next_room # NULL
                      THEN handle_look(
                               [g EXCEPT !.current_room = next_room,
                                         !.all_rooms[g.current_room].exits[dir] = NULL],
                               <<>>)
                      ELSE ui_log(g, "You can't go that way.")

\* a handle_go that assigns the exit before it tests it
handle_go_unchecked(g, argument) ==
    IF argument = <<>> THEN ui_log(g, "Go where?")
    ELSE LET dir == go_direction(argument[1])
         IN  IF dir = -1 THEN ui_log(g, "That's not a valid direction.")
             ELSE LET next_room == g.all_rooms[g.current_room].exits[dir]
                  IN  IF next_room # NULL
                      THEN handle_look([g EXCEPT !.current_room = next_room], <<>>)
                      ELSE ui_log([g EXCEPT !.current_room = next_room],
                                  "You can't go that way.")

handle_go(g, argument) ==
    IF argument = <<>> THEN ui_log(g, "Go where?")
    ELSE LET dir == go_direction(argument[1])
         IN  IF dir = -1 THEN ui_log(g, "That's not a valid direction.")
             ELSE LET next_room == g.all_rooms[g.current_room].exits[dir]
                  IN  IF next_room # NULL
                      THEN handle_look([g EXCEPT !.current_room = next_room], <<>>)
                      ELSE ui_log(g, "You can't go that way.")

handle_help(g, argument) ==
    ui_log(ui_log(ui_log(ui_log(ui_log(g,
        "--- Available Commands ---"),
        "look (l): Describe the current room and exits."),
        "go <dir>: Move in a direction (north, south, east, west, or n,s,e,w)."),
        "help: Show this help message."),
        "quit/exit: Leave the game.")

command_table == <<
    [command |-> "quit", handler |-> "handle_quit"],
    [command |-> "exit", handler |-> "handle_quit"],
    [command |-> "look", handler |-> "handle_look"],
    [command |-> "l", handler |-> "handle_look"],
    [command |-> "go", handler |-> "handle_go"],
    [command |-> "north", handler |-> "handle_go"],
    [command |-> "south", handler |-> "handle_go"],
    [command |-> "east", handler |-> "handle_go"],
    [command |-> "west", handler |-> "handle_go"],
    [command |-> "n", handler |-> "handle_go"],
    [command |-> "s", handler |-> "handle_go"],
    [command |-> "e", handler |-> "handle_go"],
    [command |-> "w", handler |-> "handle_go"],
    [command |-> "help", handler |-> "handle_help"] >>

\* the call through command_table[i].handler
call_handler(handler, g, argument) ==
    IF handler = "handle_quit" THEN handle_quit(g, argument)
    ELSE IF handler = "handle_look" THEN handle_look(g, argument)
    ELSE IF handler = "handle_go" THEN handle_go(g, argument)
    ELSE handle_help(g, argument)

\* the first loop of parse_and_execute_command: tolower on every character
RECURSIVE lowercase(_, _)
lowercase(input, i) ==
    IF i > Len(input) THEN ""
    ELSE tolower(Ch(input, i)) \o lowercase(input, i + 1)

IsDelim(c) == c = " " \/ c = "\n"

RECURSIVE skip_delims(_, _)
skip_delims(s, i) ==
    IF i <= Len(s) /\ IsDelim(Ch(s, i)) THEN skip_delims(s, i + 1) ELSE i

RECURSIVE skip_token(_, _)
skip_token(s, i) ==
    IF i <= Len(s) /\ ~IsDelim(Ch(s, i)) THEN skip_token(s, i + 1) ELSE i

\* strtok(.., " \n") resumed at position i: the token (<<>> for NULL) and
\* the position at which the next call resumes
strtok(s, i) ==
    LET b == skip_delims(s, i)
        e == skip_token(s, b)
    IN  IF b > Len(s)
        THEN [token |-> <<>>, next |-> b]
        ELSE [token |-> <<SubSeq(s, b, e - 1)>>, next |-> e + 1]

IsDirectionWord(w) ==
    w \in {"n", "north", "s", "south", "e", "east", "w", "west"}

\* a verb that is not in the table ends the session
RECURSIVE dispatch_strict(_, _, _, _)
dispatch_strict(g, verb, argument, i) ==
    IF i > Len(command_table)
    THEN [ui_log(g, "I don't understand that command.") EXCEPT !.game_should_close = TRUE]
    ELSE IF verb = command_table[i].command
         THEN call_handler(command_table[i].handler, g, argument)
         ELSE dispatch_strict(g, verb, argument, i + 1)

\* the scan of command_table from entry i on
RECURSIVE dispatch(_, _, _, _)
dispatch(g, verb, argument, i) ==
    IF i > Len(command_table) THEN ui_log(g, "I don't understand that command.")
    ELSE IF verb = command_table[i].command
         THEN call_handler(command_table[i].handler, g, argument)
         ELSE dispatch(g, verb, argument, i + 1)

\* a bare direction word goes to the table as it is, with its own argument
parse_and_execute_command_no_alias(g, input) ==
    LET low == lowercase(input, 1)
        t1 == strtok(low, 1)
        t2 == strtok(low, t1.next)
    IN  IF t1.token = <<>> THEN g
        ELSE dispatch(g, t1.token[1], t2.token, 1)

parse_and_execute_command(g, input) ==
    LET low == lowercase(input, 1)
        t1 == strtok(low, 1)
        t2 == strtok(low, t1.next)
        verb == t1.token
        argument == t2.token
    IN  IF verb = <<>> THEN g
        ELSE IF IsDirectionWord(verb[1])
             THEN dispatch(g, "go", verb, 1)
             ELSE dispatch(g, verb[1], argument, 1)

-----------------------------------------------------------------------------
(* Inputs: map files and input scripts *)

\* the map of the lesson's build instructions
ExampleMap == <<
    "room 0 \"You are in a dusty, forgotten library. Ancient tomes line the walls. A grand wooden door stands to the north.\"",
    "room 1 \"You've entered a vast, cold cavern. The sound of dripping water echoes around you. A narrow passage leads east.\"",
    "room 2 \"This is a small, cramped tunnel. It smells of damp earth. The path continues west, and you see a faint light to the south.\"",
    "room 3 \"You emerge into a treasure room! Piles of gold and jewels glitter in the torchlight. A heavy stone door is to the north.\"",
    "",
    "link 0 n 1",
    "link 1 s 0",
    "link 1 e 2",
    "link 2 w 1",
    "link 2 s 3",
    "link 3 n 2" >>

\* the lines the small map files are made of
CandLines == {
    "room 0 \"A\"",
    "room 1 \"B\"",
    "room 0 \"B\"",
    "room 1",
    "room 1 \"B",
    "rooms are big",
    "link 0 n 1",
    "link 1 s 0",
    "link 0 n 0",
    "link 0 e 2",
    "link 2 w 0",
    "link 0 north 1",
    "link 0 n",
    "",
    "# a map" }

SmallFiles == UNION {[1..n -> CandLines] : n \in 0..MaxLines}

\* n well-formed room lines with the ids 0 .. n-1
RoomBlock(n) == [i \in 1..n |-> "room " \o ToString(i - 1) \o " \"A\""]

BigFiles == {
    RoomBlock(MAX_ROOMS) \o <<"link 99 n 0">>,
    RoomBlock(MAX_ROOMS + 1),
    <<"link 100 s 1">> \o RoomBlock(MAX_ROOMS + 1) }

\* the maps of the play sessions
PlayFiles == {
    ExampleMap,
    <<"room 0 \"A\"">>,
    <<"link 0 e 7", "link 7 e 7", "room 7 \"B\"", "room 0 \"A\"", "link 7 w 0">>,
    <<"room 0 \"A\"", "room 1 \"B\"", "link 0 n 1", "link 0 n 0", "link 0 s 1">> }

Files == SmallFiles \cup BigFiles \cup PlayFiles

Inputs == {
    "go", "go n", "go north", "go s", "go south", "go e", "go east", "go w",
    "go west", "go up", "n", "north", "s", "south", "e", "east", "w", "west",
    "look", "l", "help", "quit", "exit", "dance", "", "GO North" }

\* the inputs a play script's earlier commands are drawn from
SetupInputs == {"help", "go n", "e", "go s", "w", "quit"}

\* a play script: up to MaxCmds inputs, the last one any of Inputs
Scripts ==
    {p \o t : p \in UNION {[1..n -> SetupInputs] : n \in 0..(MaxCmds - 1)},
              t \in {<<>>} \cup {<<i>> : i \in Inputs}}

LoadScripts == {<<>>, <<"go n", "quit">>, <<"help", "look", "exit">>}

-----------------------------------------------------------------------------
(* main() *)

Threads == 0..(NUM_THREADS - 1)

\* the analyzer is not running
AnalyzerIdle ==
    /\ an_argc = 0
    /\ an_file_exists = FALSE
    /\ file_buffer = ""
    /\ an_pc = "none"
    /\ an_exit_code = -1
    /\ created = 0
    /\ joined = 0
    /\ thread_args = [t \in Threads |-> [data_chunk |-> 0, chunk_size |-> 0]]
    /\ t_pc = [t \in Threads |-> "none"]
    /\ local = [t \in Threads |->
                   [local_chars |-> 0, local_words |-> 0, local_lines |-> 0]]
    /\ reg = [t \in Threads |-> 0]
    /\ g_counts = [total_chars |-> 0, total_words |-> 0, total_lines |-> 0]
    /\ g_mutex = "none"

Procs == {"shell", "child"}

\* the tiny shell is not running
ShellIdle ==
    /\ sh_stdin = <<>>
    /\ p_pc = [p \in Procs |-> "none"]
    /\ p_args = [p \in Procs |-> <<>>]
    /\ p_should_run = [p \in Procs |-> 0]
    /\ p_status = [p \in Procs |-> -1]
    /\ prompts = [p \in Procs |-> 0]
    /\ reads = [p \in Procs |-> 0]
    /\ forks = 0

\* the nodes malloc can hand out
NodeIds == 1..MaxEdLines

\* a node that is not allocated
free_node == [used |-> FALSE, text |-> "", prev |-> NULL, next |-> NULL]

\* the line editor is not running
EditorIdle ==
    /\ ed_pc = "none"
    /\ heap = [n \in NodeIds |-> free_node]
    /\ head = NULL
    /\ tail = NULL
    /\ line_count = 0
    /\ modified = FALSE
    /\ ed_last = [op |-> "none", n |-> 0, text |-> ""]

InitWith(files, scripts) ==
    /\ \/ argc = 2 /\ file_exists = TRUE /\ file \in files
       \/ argc = 2 /\ file_exists = FALSE /\ file = <<>>
       \/ argc \in {1, 3} /\ file_exists = TRUE /\ file = ExampleMap
    /\ stdin \in scripts
    /\ pc = "main"
    /\ exit_code = -1
    /\ game = "NULL"
    /\ all_rooms = <<>>
    /\ current_room = NULL
    /\ game_should_close = FALSE
    /\ log_messages = <<>>
    /\ input_buffer = <<>>
    /\ logged = <<>>
    /\ fopen_called = FALSE
    /\ log_ptrs = <<>>
    /\ freed = <<>>
    /\ AnalyzerIdle
    /\ ShellIdle
    /\ EditorIdle

Init == InitWith(Files, LoadScripts)

InitPlay == InitWith(PlayFiles, Scripts)

GState ==
    [all_rooms |-> all_rooms, current_room |-> current_room,
     game_should_close |-> game_should_close, log_messages |-> log_messages,
     logged |-> logged, log_ptrs |-> log_ptrs, freed |-> freed]

SetGState(g) ==
    /\ all_rooms' = g.all_rooms
    /\ current_room' = g.current_room
    /\ game_should_close' = g.game_should_close
    /\ log_messages' = g.log_messages
    /\ logged' = g.logged
    /\ log_ptrs' = g.log_ptrs
    /\ freed' = g.freed

\* cleanup(game): every room, every log message and the GameState are freed
cleanup ==
    /\ game' = "freed"
    /\ all_rooms' = <<>>
    /\ current_room' = NULL
    /\ log_messages' = <<>>
    /\ log_ptrs' = <<>>
    /\ freed' = freed \o log_ptrs
    /\ UNCHANGED <<game_should_close, logged>>

\* return code
return(code) ==
    /\ pc' = "exited"
    /\ exit_code' = code

\* a failed load returns 0
Main_Loaded_lenient(w) ==
    IF ~w.ok
    THEN /\ return(0)
         /\ UNCHANGED <<game, all_rooms, current_room, game_should_close,
                        log_messages, logged, log_ptrs, freed>>
    ELSE /\ game' = "live"
         /\ all_rooms' = w.rooms
         /\ pc' = "loaded"
         /\ UNCHANGED <<exit_code, current_room, game_should_close,
                        log_messages, logged, log_ptrs, freed>>

\* main after load_world returned w
Main_Loaded(w) ==
    IF ~w.ok
    THEN /\ return(1)
         /\ UNCHANGED <<game, all_rooms, current_room, game_should_close,
                        log_messages, logged, log_ptrs, freed>>
    ELSE /\ game' = "live"
         /\ all_rooms' = w.rooms
         /\ pc' = "loaded"
         /\ UNCHANGED <<exit_code, current_room, game_should_close,
                        log_messages, logged, log_ptrs, freed>>

\* main up to the return of load_world
Main_Load ==
    /\ pc = "main"
    /\ IF argc # 2
       THEN /\ return(1)
            /\ UNCHANGED <<game, all_rooms, current_room, game_should_close,
                           log_messages, logged, log_ptrs, freed, fopen_called>>
       ELSE /\ Main_Loaded(load_world(file_exists, file))
            /\ fopen_called' = TRUE
    /\ UNCHANGED <<argc, file_exists, file, stdin, input_buffer>>
    /\ UNCHANGED <<analyzer_vars, shell_vars, editor_vars>>

\* without a room 0 the first room of the file is the start
start_room_fallback(rooms) ==
    IF find_room_by_id(rooms, 0) = NULL /\ rooms # <<>> THEN 1
    ELSE find_room_by_id(rooms, 0)

\* the room main starts the player in
start_room(rooms) == find_room_by_id(rooms, 0)

\* main from ui_init to the call of game_loop
Main_Start ==
    /\ pc = "loaded"
    /\ LET start == start_room(all_rooms)
       IN  IF start = NULL
           THEN cleanup /\ return(1)
           ELSE /\ SetGState(handle_look(
                        ui_log([GState EXCEPT !.current_room = start],
                               "Welcome to the Awesome Text Adventure! Type 'help' for commands."),
                        <<>>))
                /\ pc' = "loop"
                /\ UNCHANGED <<exit_code, game>>
    /\ UNCHANGED <<argc, file_exists, file, stdin, input_buffer, fopen_called>>
    /\ UNCHANGED <<analyzer_vars, shell_vars, editor_vars>>

\* ui_get_input: the next line typed; at the end of the input wgetnstr
\* fails and leaves the empty string in the buffer
ui_get_input(in) == IF in = <<>> THEN "" ELSE Head(in)

\* one iteration of game_loop: draw, read, dispatch
GameLoopStep ==
    /\ pc = "loop"
    /\ ~game_should_close
    /\ LET input == ui_get_input(stdin)
       IN  /\ SetGState(parse_and_execute_command(GState, input))
           /\ input_buffer' = <<lowercase(input, 1)>>
    /\ stdin' = IF stdin = <<>> THEN stdin ELSE Tail(stdin)
    /\ UNCHANGED <<argc, file_exists, file, pc, exit_code, game, fopen_called>>
    /\ UNCHANGED <<analyzer_vars, shell_vars, editor_vars>>

\* main after game_loop returns
Main_Teardown ==
    /\ pc = "loop"
    /\ game_should_close
    /\ cleanup
    /\ return(0)
    /\ UNCHANGED <<argc, file_exists, file, stdin, input_buffer, fopen_called>>
    /\ UNCHANGED <<analyzer_vars, shell_vars, editor_vars>>

Next == Main_Load \/ Main_Start \/ GameLoopStep \/ Main_Teardown

Spec == Init /\ [][Next]_vars

SpecPlay == InitPlay /\ [][Next]_vars

\* every map file, with a session of the one command quit
InitLoad == InitWith(Files, {<<"quit">>})

SpecLoad == InitLoad /\ [][Next]_vars

-----------------------------------------------------------------------------
(* The multithreaded file analyzer (lesson 30).  main reads the file into   *)
(* file_buffer, creates NUM_THREADS workers one after the other and joins  *)
(* them in the same order; a worker scans its chunk into local counts and  *)
(* adds them to g_counts between pthread_mutex_lock and                    *)
(* pthread_mutex_unlock.  A += on a shared total is a read of the total    *)
(* into a register and a write of the sum, as two steps.  data_chunk is    *)
(* the offset of the chunk in file_buffer.                                 *)
(*                                                                         *)
(* Environment assumptions: fread reads the whole file; pthread_create     *)
(* succeeds; malloc succeeds for a size above 0, and malloc(0) returns     *)
(* either a null or a non-null pointer.                                    *)

\* the text adventure is not running
AdventureIdle ==
    /\ argc = 0
    /\ file_exists = FALSE
    /\ file = <<>>
    /\ stdin = <<>>
    /\ pc = "none"
    /\ exit_code = -1
    /\ game = "NULL"
    /\ all_rooms = <<>>
    /\ current_room = NULL
    /\ game_should_close = FALSE
    /\ log_messages = <<>>
    /\ input_buffer = <<>>
    /\ logged = <<>>
    /\ fopen_called = FALSE
    /\ log_ptrs = <<>>
    /\ freed = <<>>

\* the bytes the files are made of
Bytes == {"a", " ", "\n"}

RECURSIVE StringsOfLen(_)
StringsOfLen(n) ==
    IF n = 0 THEN {""} ELSE {s \o b : s \in StringsOfLen(n - 1), b \in Bytes}

Contents == UNION {StringsOfLen(n) : n \in 0..MaxBytes}

InitAnalyzer ==
    /\ \/ an_argc = 2 /\ an_file_exists = TRUE /\ file_buffer \in Contents
       \/ an_argc = 2 /\ an_file_exists = FALSE /\ file_buffer = ""
       \/ an_argc \in {1, 3} /\ an_file_exists = TRUE /\ file_buffer = "a a\n"
    /\ an_pc = "main"
    /\ an_exit_code = -1
    /\ created = 0
    /\ joined = 0
    /\ thread_args = [t \in Threads |-> [data_chunk |-> 0, chunk_size |-> 0]]
    /\ t_pc = [t \in Threads |-> "none"]
    /\ local = [t \in Threads |->
                   [local_chars |-> 0, local_words |-> 0, local_lines |-> 0]]
    /\ reg = [t \in Threads |-> 0]
    /\ g_counts = [total_chars |-> 0, total_words |-> 0, total_lines |-> 0]
    /\ g_mutex = "none"
    /\ AdventureIdle
    /\ ShellIdle
    /\ EditorIdle

\* one iteration of the loop of analyze_chunk on the character c
count_char(c, n) ==
    [local_chars |-> n.local_chars + 1,
     local_lines |-> IF c = "\n" THEN n.local_lines + 1 ELSE n.local_lines,
     local_words |-> IF ~IsSpace(c) /\ n.in_word = 0
                     THEN n.local_words + 1 ELSE n.local_words,
     in_word |-> IF IsSpace(c) THEN 0 ELSE 1]

\* the loop of analyze_chunk from i on, over chunk_size bytes from data_chunk
RECURSIVE count_from(_, _, _, _, _)
count_from(buf, data_chunk, chunk_size, i, n) ==
    IF i >= chunk_size THEN n
    ELSE count_from(buf, data_chunk, chunk_size, i + 1,
                    count_char(Ch(buf, data_chunk + i + 1), n))

\* the local counts of analyze_chunk after its loop
count_chunk(buf, data_chunk, chunk_size) ==
    count_from(buf, data_chunk, chunk_size, 0,
               [local_chars |-> 0, local_words |-> 0, local_lines |-> 0,
                in_word |-> 0])

an_return(code) ==
    /\ an_pc' = "exited"
    /\ an_exit_code' = code

\* main from its start to pthread_mutex_init
AnMain_Read ==
    /\ an_pc = "main"
    /\ \/ /\ an_argc # 2 \/ ~an_file_exists
          /\ an_return(1)
          /\ UNCHANGED g_mutex
       \/ /\ an_argc = 2 /\ an_file_exists
          /\ Len(file_buffer) = 0
          /\ an_return(1)
          /\ UNCHANGED g_mutex
       \/ /\ an_argc = 2 /\ an_file_exists
          /\ an_pc' = "create"
          /\ g_mutex' = "unlocked"
          /\ UNCHANGED an_exit_code
    /\ UNCHANGED <<an_argc, an_file_exists, file_buffer, created, joined,
                   thread_args, t_pc, local, reg, g_counts>>
    /\ UNCHANGED <<adventure_vars, shell_vars, editor_vars>>

\* the chunk main gives to worker i
chunk_of(file_size, i) ==
    [data_chunk |-> i * (file_size \div NUM_THREADS),
     chunk_size |-> IF i = NUM_THREADS - 1
                    THEN file_size - i * (file_size \div NUM_THREADS)
                    ELSE file_size \div NUM_THREADS]

\* one iteration of the pthread_create loop
AnMain_Create ==
    /\ an_pc = "create"
    /\ created < NUM_THREADS
    /\ thread_args' = [thread_args EXCEPT ![created] = chunk_of(Len(file_buffer), created)]
    /\ t_pc' = [t_pc EXCEPT ![created] = "scan"]
    /\ created' = created + 1
    /\ an_pc' = IF created + 1 = NUM_THREADS THEN "join" ELSE "create"
    /\ UNCHANGED <<an_argc, an_file_exists, file_buffer, an_exit_code, joined,
                   local, reg, g_counts, g_mutex>>
    /\ UNCHANGED <<adventure_vars, shell_vars, editor_vars>>

\* one iteration of the pthread_join loop: it returns once the worker has ended
AnMain_Join ==
    /\ an_pc = "join"
    /\ joined < NUM_THREADS
    /\ t_pc[joined] = "done"
    /\ joined' = joined + 1
    /\ UNCHANGED <<an_argc, an_file_exists, file_buffer, an_pc, an_exit_code,
                   created, thread_args, t_pc, local, reg, g_counts, g_mutex>>
    /\ UNCHANGED <<adventure_vars, shell_vars, editor_vars>>

\* main after the join loop: the mutex is destroyed and g_counts is printed
AnMain_Report ==
    /\ an_pc = "join"
    /\ joined = NUM_THREADS
    /\ g_mutex' = "destroyed"
    /\ an_return(0)
    /\ UNCHANGED <<an_argc, an_file_exists, file_buffer, created, joined,
                   thread_args, t_pc, local, reg, g_counts>>
    /\ UNCHANGED <<adventure_vars, shell_vars, editor_vars>>

\* the worker's loop over its chunk, on its local variables
Scan(t) ==
    /\ t_pc[t] = "scan"
    /\ local' = [local EXCEPT ![t] =
                    [f \in {"local_chars", "local_words", "local_lines"} |->
                        count_chunk(file_buffer, thread_args[t].data_chunk,
                                    thread_args[t].chunk_size)[f]]]
    /\ t_pc' = [t_pc EXCEPT ![t] = "lock"]
    /\ UNCHANGED <<an_argc, an_file_exists, file_buffer, an_pc, an_exit_code,
                   created, joined, thread_args, reg, g_counts, g_mutex>>
    /\ UNCHANGED <<adventure_vars, shell_vars, editor_vars>>

\* the lock is taken whether or not another worker holds it
pthread_mutex_lock_unchecked(t) ==
    g_mutex' = "locked"

\* pthread_mutex_lock returns once the mutex is free, and holds it
pthread_mutex_lock(t) ==
    /\ g_mutex = "unlocked"
    /\ g_mutex' = "locked"

Lock(t) ==
    /\ t_pc[t] = "lock"
    /\ pthread_mutex_lock(t)
    /\ t_pc' = [t_pc EXCEPT ![t] = "read_chars"]
    /\ UNCHANGED <<an_argc, an_file_exists, file_buffer, an_pc, an_exit_code,
                   created, joined, thread_args, local, reg, g_counts>>
    /\ UNCHANGED <<adventure_vars, shell_vars, editor_vars>>

\* the three += of the critical section, in program order
Additions == <<
    [read |-> "read_chars", write |-> "write_chars", total |-> "total_chars",
     local |-> "local_chars", next |-> "read_words"],
    [read |-> "read_words", write |-> "write_words", total |-> "total_words",
     local |-> "local_words", next |-> "read_lines"],
    [read |-> "read_lines", write |-> "write_lines", total |-> "total_lines",
     local |-> "local_lines", next |-> "unlock"] >>

\* the first half of a +=: the shared total is read
Read(t) ==
    /\ \E k \in 1..Len(Additions) :
          /\ t_pc[t] = Additions[k].read
          /\ reg' = [reg EXCEPT ![t] = g_counts[Additions[k].total]]
          /\ t_pc' = [t_pc EXCEPT ![t] = Additions[k].write]
    /\ UNCHANGED <<an_argc, an_file_exists, file_buffer, an_pc, an_exit_code,
                   created, joined, thread_args, local, g_counts, g_mutex>>
    /\ UNCHANGED <<adventure_vars, shell_vars, editor_vars>>

\* the second half of a +=: the sum is written back
Write(t) ==
    /\ \E k \in 1..Len(Additions) :
          /\ t_pc[t] = Additions[k].write
          /\ g_counts' = [g_counts EXCEPT ![Additions[k].total] =
                             reg[t] + local[t][Additions[k].local]]
          /\ t_pc' = [t_pc EXCEPT ![t] = Additions[k].next]
    /\ reg' = [reg EXCEPT ![t] = 0]
    /\ UNCHANGED <<an_argc, an_file_exists, file_buffer, an_pc, an_exit_code,
                   created, joined, thread_args, local, g_mutex>>
    /\ UNCHANGED <<adventure_vars, shell_vars, editor_vars>>

\* pthread_mutex_unlock and the return of analyze_chunk
Unlock(t) ==
    /\ t_pc[t] = "unlock"
    /\ g_mutex' = "unlocked"
    /\ t_pc' = [t_pc EXCEPT ![t] = "done"]
    /\ UNCHANGED <<an_argc, an_file_exists, file_buffer, an_pc, an_exit_code,
                   created, joined, thread_args, local, reg, g_counts>>
    /\ UNCHANGED <<adventure_vars, shell_vars, editor_vars>>

analyze_chunk(t) == Scan(t) \/ Lock(t) \/ Read(t) \/ Write(t) \/ Unlock(t)

NextAnalyzer ==
    \/ AnMain_Read
    \/ AnMain_Create
    \/ AnMain_Join
    \/ AnMain_Report
    \/ \E t \in Threads : analyze_chunk(t)

SpecAnalyzer == InitAnalyzer /\ [][NextAnalyzer]_vars


-----------------------------------------------------------------------------
(* The tiny shell (lesson 29).  main is a loop: prompt, fgets, parse_input, *)
(* the built-in exit, fork, execvp in the child, waitpid in the parent.  A *)
(* process is at one position of that code; fork gives the child a copy of *)
(* the parent's variables at the position after fork.  The processes share *)
(* the input.                                                              *)
(*                                                                         *)
(* Environment assumptions: an input line is shorter than MAX_LINE; a      *)
(* program that execvp starts terminates, and the program cat reads input  *)
(* lines while it runs; waitpid is not interrupted.                        *)

IsBlank(c) == c = " " \/ c = "\t" \/ c = "\n"

RECURSIVE skip_blanks(_, _)
skip_blanks(s, i) ==
    IF i <= Len(s) /\ IsBlank(Ch(s, i)) THEN skip_blanks(s, i + 1) ELSE i

RECURSIVE skip_nonblanks(_, _)
skip_nonblanks(s, i) ==
    IF i <= Len(s) /\ ~IsBlank(Ch(s, i)) THEN skip_nonblanks(s, i + 1) ELSE i

RECURSIVE parse_tokens(_, _, _)

\* the loop of parse_input once strtok has found a token at b
parse_token_at(line, b, args) ==
    IF b > Len(line) \/ Len(args) >= MAX_ARGS - 1 THEN args
    ELSE parse_tokens(line, skip_nonblanks(line, b),
                      Append(args, SubSeq(line, b, skip_nonblanks(line, b) - 1)))

\* the loop of parse_input, strtok resuming at position i
parse_tokens(line, i, args) == parse_token_at(line, skip_blanks(line, i), args)

\* parse_input: args[] up to its terminating NULL
parse_input(line) == parse_tokens(line, 1, <<>>)

\* the programs execvp finds
Programs == {"ls", "cat"}

\* the lines typed to the shell
ShellLines == {"ls -l", "cat", "nosuch", "", "exit", "\tls"}

ShellScripts == UNION {[1..n -> ShellLines] : n \in 0..MaxShellCmds}

InitShell ==
    /\ sh_stdin \in ShellScripts
    /\ p_pc = [p \in Procs |-> IF p = "shell" THEN "loop" ELSE "none"]
    /\ p_args = [p \in Procs |-> <<>>]
    /\ p_should_run = [p \in Procs |-> IF p = "shell" THEN 1 ELSE 0]
    /\ p_status = [p \in Procs |-> -1]
    /\ prompts = [p \in Procs |-> 0]
    /\ reads = [p \in Procs |-> 0]
    /\ forks = 0
    /\ AdventureIdle
    /\ AnalyzerIdle
    /\ EditorIdle

\* the process ends with the status
sh_exit(p, status) ==
    /\ p_pc' = [p_pc EXCEPT ![p] = "terminated"]
    /\ p_status' = [p_status EXCEPT ![p] = status]

\* the test of the while loop and the prompt
ShPrompt(p) ==
    /\ p_pc[p] = "loop"
    /\ IF p_should_run[p] = 1
       THEN /\ prompts' = [prompts EXCEPT ![p] = @ + 1]
            /\ p_pc' = [p_pc EXCEPT ![p] = "read"]
            /\ UNCHANGED p_status
       ELSE /\ sh_exit(p, 0)
            /\ UNCHANGED prompts
    /\ UNCHANGED <<sh_stdin, p_args, p_should_run, reads, forks>>
    /\ UNCHANGED <<adventure_vars, analyzer_vars, editor_vars>>

\* main from parse_input to the call of fork, args being the parsed line
sh_command(p, args) ==
    /\ p_args' = [p_args EXCEPT ![p] = args]
    /\ IF args = <<>>
       THEN /\ p_pc' = [p_pc EXCEPT ![p] = "loop"]
            /\ UNCHANGED p_should_run
       ELSE IF args[1] = "exit"
       THEN /\ p_pc' = [p_pc EXCEPT ![p] = "loop"]
            /\ p_should_run' = [p_should_run EXCEPT ![p] = 0]
       ELSE /\ p_pc' = [p_pc EXCEPT ![p] = "fork"]
            /\ UNCHANGED p_should_run

\* fgets and what main does with the line up to the call of fork
ShRead(p) ==
    /\ p_pc[p] = "read"
    /\ reads' = [reads EXCEPT ![p] = @ + 1]
    /\ IF sh_stdin = <<>>
       THEN /\ sh_exit(p, 0)
            /\ UNCHANGED <<sh_stdin, p_args, p_should_run>>
       ELSE /\ sh_stdin' = Tail(sh_stdin)
            /\ sh_command(p, parse_input(Head(sh_stdin)))
            /\ UNCHANGED p_status
    /\ UNCHANGED <<prompts, forks>>
    /\ UNCHANGED <<adventure_vars, analyzer_vars, editor_vars>>

\* fork: it fails, and the process exits with 1; or the child starts as a
\* copy of the process, before execvp, and the process goes on to waitpid
ShFork(p) ==
    /\ p_pc[p] = "fork"
    /\ \/ /\ sh_exit(p, 1)
          /\ UNCHANGED <<p_args, p_should_run, forks>>
       \/ /\ p = "shell"
          /\ p_pc["child"] = "none"
          /\ p_pc' = [p_pc EXCEPT ![p] = "wait", !["child"] = "exec"]
          /\ p_args' = [p_args EXCEPT !["child"] = p_args[p]]
          /\ p_should_run' = [p_should_run EXCEPT !["child"] = p_should_run[p]]
          /\ forks' = forks + 1
          /\ UNCHANGED p_status
    /\ UNCHANGED <<sh_stdin, prompts, reads>>
    /\ UNCHANGED <<adventure_vars, analyzer_vars, editor_vars>>

\* execvp has returned -1 and the process carries on in the loop
execvp_failed_returns(p) ==
    /\ p_pc' = [p_pc EXCEPT ![p] = "loop"]
    /\ UNCHANGED p_status

\* execvp has returned -1: perror and exit(1)
execvp_failed(p) == sh_exit(p, 1)

\* execvp in the child: the process becomes the program, or execvp fails
ShExec(p) ==
    /\ p_pc[p] = "exec"
    /\ IF p_args[p][1] \in Programs
       THEN /\ p_pc' = [p_pc EXCEPT ![p] = "running"]
            /\ UNCHANGED p_status
       ELSE execvp_failed(p)
    /\ UNCHANGED <<sh_stdin, p_args, p_should_run, prompts, reads, forks>>
    /\ UNCHANGED <<adventure_vars, analyzer_vars, editor_vars>>

\* the program the child has become: cat reads a line of the input, and any
\* program ends, with status 0 or 1
ShRun(p) ==
    /\ p_pc[p] = "running"
    /\ \/ /\ p_args[p][1] = "cat"
          /\ sh_stdin # <<>>
          /\ sh_stdin' = Tail(sh_stdin)
          /\ UNCHANGED <<p_pc, p_status>>
       \/ /\ \E status \in {0, 1} : sh_exit(p, status)
          /\ UNCHANGED sh_stdin
    /\ UNCHANGED <<p_args, p_should_run, prompts, reads, forks>>
    /\ UNCHANGED <<adventure_vars, analyzer_vars, editor_vars>>

\* a waitpid that returns at once, whatever the child does
waitpid_nohang(c) == TRUE

\* waitpid(pid, &status, 0) returns once the child has terminated
waitpid(c) == p_pc[c] = "terminated"

\* waitpid in the parent: the terminated child is reaped
ShWait(p) ==
    /\ p_pc[p] = "wait"
    /\ waitpid("child")
    /\ IF p_pc["child"] = "terminated"
       THEN /\ p_pc' = [p_pc EXCEPT ![p] = "loop", !["child"] = "none"]
            /\ p_status' = [p_status EXCEPT !["child"] = -1]
       ELSE /\ p_pc' = [p_pc EXCEPT ![p] = "loop"]
            /\ UNCHANGED p_status
    /\ UNCHANGED <<sh_stdin, p_args, p_should_run, prompts, reads, forks>>
    /\ UNCHANGED <<adventure_vars, analyzer_vars, editor_vars>>

NextShell ==
    \E p \in Procs :
        ShPrompt(p) \/ ShRead(p) \/ ShFork(p) \/ ShExec(p) \/ ShRun(p) \/ ShWait(p)

SpecShell == InitShell /\ [][NextShell]_vars

-----------------------------------------------------------------------------
(* The line editor (lesson 25).  The text buffer is a doubly-linked list   *)
(* of Line nodes in the heap, with the globals head, tail, line_count and  *)
(* modified.  A node is named by its address, NULL being no node; the text *)
(* of a line, a second allocation in the code, is kept in the node.  The   *)
(* functions of the code are operators on the record of the globals and    *)
(* the heap; malloc hands out any address that is not in use.              *)

\* the globals and the heap as one value
EdState == [heap |-> heap, head |-> head, tail |-> tail,
            line_count |-> line_count, modified |-> modified]

SetEdState(b) ==
    /\ heap' = b.heap
    /\ head' = b.head
    /\ tail' = b.tail
    /\ line_count' = b.line_count
    /\ modified' = b.modified

\* the addresses malloc can return
FreeNodes(b) == {a \in NodeIds : ~b.heap[a].used}

\* create_line, malloc returning a
create_line(b, a, text) ==
    [b EXCEPT !.heap[a] = [used |-> TRUE, text |-> text, prev |-> NULL, next |-> NULL]]

\* append_line after its call of create_line
append_line_link(c, a) ==
    IF c.tail = NULL
    THEN [c EXCEPT !.head = a, !.tail = a,
                   !.line_count = @ + 1, !.modified = TRUE]
    ELSE [c EXCEPT !.heap[c.tail].next = a, !.heap[a].prev = c.tail, !.tail = a,
                   !.line_count = @ + 1, !.modified = TRUE]

append_line(b, a, text) == append_line_link(create_line(b, a, text), a)

\* the node reached from current by k steps along next
RECURSIVE nth_next(_, _, _)
nth_next(b, current, k) ==
    IF k <= 0 THEN current ELSE nth_next(b, b.heap[current].next, k - 1)

\* insert_line re-wiring the pointers: new_line a goes before current, whose
\* predecessor is p
insert_line_rewire(c, a, current, p) ==
    [heap |-> [n \in NodeIds |->
                  IF n = a THEN [c.heap[n] EXCEPT !.next = current, !.prev = p]
                  ELSE IF n = current THEN [c.heap[n] EXCEPT !.prev = a]
                  ELSE IF n = p THEN [c.heap[n] EXCEPT !.next = a]
                  ELSE c.heap[n]],
     head |-> IF p = NULL THEN a ELSE c.head,
     tail |-> c.tail,
     line_count |-> c.line_count + 1,
     modified |-> TRUE]

insert_line_before(c, a, current) ==
    insert_line_rewire(c, a, current, c.heap[current].prev)

\* an insert_line that puts the new line after line line_number
insert_line_after(b, a, line_number, text) ==
    IF line_number < 1 \/ line_number > b.line_count + 1 THEN b
    ELSE IF line_number >= b.line_count THEN append_line(b, a, text)
    ELSE insert_line_before(create_line(b, a, text), a,
                            nth_next(b, b.head, line_number))

\* insert_line, malloc returning a if create_line is called
insert_line(b, a, line_number, text) ==
    IF line_number < 1 \/ line_number > b.line_count + 1 THEN b
    ELSE IF line_number = b.line_count + 1 THEN append_line(b, a, text)
    ELSE insert_line_before(create_line(b, a, text), a,
                            nth_next(b, b.head, line_number - 1))

\* delete_line bypassing and freeing to_delete d, whose neighbours are p, nx
delete_line_bypass(b, d, p, nx) ==
    [heap |-> [n \in NodeIds |->
                  IF n = d THEN free_node
                  ELSE IF n = p THEN [b.heap[n] EXCEPT !.next = nx]
                  ELSE IF n = nx THEN [b.heap[n] EXCEPT !.prev = p]
                  ELSE b.heap[n]],
     head |-> IF p # NULL THEN b.head ELSE nx,
     tail |-> IF nx # NULL THEN b.tail ELSE p,
     line_count |-> b.line_count - 1,
     modified |-> TRUE]

delete_line_at(b, d) == delete_line_bypass(b, d, b.heap[d].prev, b.heap[d].next)

\* a delete_line that does not move tail when the last line goes
delete_line_keep_tail(b, line_number) ==
    IF line_number < 1 \/ line_number > b.line_count THEN b
    ELSE [delete_line_at(b, nth_next(b, b.head, line_number - 1))
          EXCEPT !.tail = b.tail]

delete_line(b, line_number) ==
    IF line_number < 1 \/ line_number > b.line_count THEN b
    ELSE delete_line_at(b, nth_next(b, b.head, line_number - 1))

\* the nodes from current along next, at most fuel of them
RECURSIVE chain(_, _, _)
chain(h, current, fuel) ==
    IF current = NULL \/ fuel = 0 THEN <<>>
    ELSE <<current>> \o chain(h, h[current].next, fuel - 1)

\* free_buffer: every node from head along next is freed
free_buffer(b) ==
    [heap |-> [n \in NodeIds |->
                  IF \E k \in 1..Len(chain(b.heap, b.head, Cardinality(NodeIds))) :
                         chain(b.heap, b.head, Cardinality(NodeIds))[k] = n
                  THEN free_node ELSE b.heap[n]],
     head |-> NULL,
     tail |-> NULL,
     line_count |-> 0,
     modified |-> b.modified]

\* atoi: white space, an optional sign, digits; 0 if there are none
atoi(s) == scan_d(s, 1).val

\* the first position >= i of s that holds the character c (Len(s)+1 if none)
RECURSIVE strchr_from(_, _, _)
strchr_from(s, c, i) ==
    IF i <= Len(s) /\ Ch(s, i) # c THEN strchr_from(s, c, i + 1) ELSE i

\* s cut at its first newline: s[strcspn(s, "\n")] = 0
chomp(s) == SubSeq(s, 1, strchr_from(s, "\n", 1) - 1)

\* the texts of lines
EdTexts == {"x", "y z"}

\* the line numbers typed
EdNums == {"-1", "x"} \cup {Digits[n + 1] : n \in 0..(MaxEdLines + 1)}

\* the command lines typed to the editor, as fgets returns them
EdLines ==
    {"a " \o t \o "\n" : t \in EdTexts}
        \cup {"i " \o n \o " " \o t \o "\n" : n \in EdNums, t \in EdTexts}
        \cup {"i 1\n"}
        \cup {"d " \o n \o "\n" : n \in EdNums}
        \cup {"p z\n", "h z\n", "s z\n", "q z\n", "y z\n", "z z\n"}

\* the contents of the file the editor is started on
EdFiles == UNION {[1..n -> EdTexts] : n \in 0..MaxEdLines}

\* the sequences of k distinct addresses
AddrSeqs(k) == {q \in [1..k -> NodeIds] : \A i, j \in 1..k : q[i] = q[j] => i = j}

\* the loop of load_file: append_line for each line of f, malloc returning as
RECURSIVE load_lines(_, _, _)
load_lines(b, f, as) ==
    IF f = <<>> THEN b
    ELSE load_lines(append_line(b, Head(as), Head(f)), Tail(f), Tail(as))

no_call == [op |-> "none", n |-> 0, text |-> ""]

InitEditor ==
    /\ ed_pc = "start"
    /\ heap = [n \in NodeIds |-> free_node]
    /\ head = NULL
    /\ tail = NULL
    /\ line_count = 0
    /\ modified = FALSE
    /\ ed_last = no_call
    /\ AdventureIdle
    /\ AnalyzerIdle
    /\ ShellIdle

\* malloc has failed in create_line: exit(1)
ed_malloc_failed ==
    /\ ed_pc' = "exit_1"
    /\ UNCHANGED <<heap, head, tail, line_count, modified, ed_last>>

\* main up to its loop: load_file on a file that does not exist, or on the
\* file with the lines f
EdLoad ==
    /\ ed_pc = "start"
    /\ \/ /\ ed_pc' = "loop"
          /\ UNCHANGED <<heap, head, tail, line_count, modified, ed_last>>
       \/ \E f \in EdFiles : \E as \in AddrSeqs(Len(f)) :
            /\ SetEdState([load_lines(EdState, f, as) EXCEPT !.modified = FALSE])
            /\ ed_pc' = "loop"
            /\ UNCHANGED ed_last
       \/ ed_malloc_failed
    /\ UNCHANGED <<adventure_vars, analyzer_vars, shell_vars>>

\* case 'a'
EdAppend ==
    /\ ed_pc = "loop"
    /\ \E line \in EdLines :
         /\ Ch(line, 1) = "a"
         /\ line_count < MaxEdLines
         /\ \/ \E a \in FreeNodes(EdState) :
                 /\ SetEdState(append_line(EdState, a, chomp(SubSeq(line, 3, Len(line)))))
                 /\ ed_last' = [op |-> "append_line", n |-> 0,
                                text |-> chomp(SubSeq(line, 3, Len(line)))]
                 /\ UNCHANGED ed_pc
            \/ ed_malloc_failed
    /\ UNCHANGED <<adventure_vars, analyzer_vars, shell_vars>>

\* case 'i' once strchr has found the space at sp of argument
ed_insert(argument, sp) ==
    \/ \E a \in FreeNodes(EdState) :
         /\ SetEdState(insert_line(EdState, a, atoi(SubSeq(argument, 1, sp - 1)),
                                   chomp(SubSeq(argument, sp + 1, Len(argument)))))
         /\ ed_last' = [op |-> "insert_line",
                        n |-> atoi(SubSeq(argument, 1, sp - 1)),
                        text |-> chomp(SubSeq(argument, sp + 1, Len(argument)))]
         /\ UNCHANGED ed_pc
    \/ /\ atoi(SubSeq(argument, 1, sp - 1)) \in 1..(line_count + 1)
       /\ ed_malloc_failed

\* case 'i'
EdInsert ==
    /\ ed_pc = "loop"
    /\ \E line \in EdLines :
         /\ Ch(line, 1) = "i"
         /\ IF strchr_from(SubSeq(line, 3, Len(line)), " ", 1) <= Len(line) - 2
            THEN /\ atoi(SubSeq(line, 3, Len(line))) \in 1..(line_count + 1)
                     => line_count < MaxEdLines
                 /\ ed_insert(SubSeq(line, 3, Len(line)),
                              strchr_from(SubSeq(line, 3, Len(line)), " ", 1))
            ELSE /\ ed_last' = [op |-> "usage", n |-> 0, text |-> ""]
                 /\ UNCHANGED <<ed_pc, heap, head, tail, line_count, modified>>
    /\ UNCHANGED <<adventure_vars, analyzer_vars, shell_vars>>

\* case 'd'
EdDelete ==
    /\ ed_pc = "loop"
    /\ \E line \in EdLines :
         /\ Ch(line, 1) = "d"
         /\ SetEdState(delete_line(EdState, atoi(SubSeq(line, 3, Len(line)))))
         /\ ed_last' = [op |-> "delete_line",
                        n |-> atoi(SubSeq(line, 3, Len(line))), text |-> ""]
    /\ UNCHANGED ed_pc
    /\ UNCHANGED <<adventure_vars, analyzer_vars, shell_vars>>

\* save_file: fopen fails, or the lines are written and modified is cleared
save_file ==
    /\ modified' \in {modified, FALSE}
    /\ UNCHANGED <<heap, head, tail, line_count>>

\* case 's'
EdSave ==
    /\ ed_pc = "loop"
    /\ \E line \in EdLines : Ch(line, 1) = "s"
    /\ save_file
    /\ ed_last' = [op |-> "save_file", n |-> 0, text |-> ""]
    /\ UNCHANGED ed_pc
    /\ UNCHANGED <<adventure_vars, analyzer_vars, shell_vars>>

\* cases 'p' and 'h' and the default case
EdOther ==
    /\ ed_pc = "loop"
    /\ \E line \in EdLines : Ch(line, 1) \notin {"a", "i", "d", "s", "q"}
    /\ ed_last' = no_call
    /\ UNCHANGED <<ed_pc, heap, head, tail, line_count, modified>>
    /\ UNCHANGED <<adventure_vars, analyzer_vars, shell_vars>>

\* case 'q', where a modified buffer may be saved on the answer y, and the
\* end of the input: free_buffer and return 0
EdQuit ==
    /\ ed_pc = "loop"
    /\ \E saved \in {b \in BOOLEAN : b => modified} :
         SetEdState([free_buffer(EdState) EXCEPT
                        !.modified = IF saved THEN FALSE ELSE @])
    /\ ed_last' = [op |-> "free_buffer", n |-> 0, text |-> ""]
    /\ ed_pc' = "exit_0"
    /\ UNCHANGED <<adventure_vars, analyzer_vars, shell_vars>>

NextEditor ==
    EdLoad \/ EdAppend \/ EdInsert \/ EdDelete \/ EdSave \/ EdOther \/ EdQuit

SpecEditor == InitEditor /\ [][NextEditor]_vars

-----------------------------------------------------------------------------
(* The map file grammar of the specification, read off the text of a line: *)
(*   room <integer id> "<description text, no embedded quote>"             *)
(*   link <from id> <direction-code> <to id>                               *)
(* with single spaces between the fields.                                  *)

\* e is the position after the digits of the id
RoomDeclTail(line, e) ==
    /\ e + 2 < Len(line)
    /\ SubSeq(line, e, e + 1) = " \""
    /\ skip_to_quote(line, e + 2) = Len(line)

IsRoomDecl(line) ==
    /\ strncmp_eq(line, "room ")
    /\ skip_digits(line, 6) > 6
    /\ RoomDeclTail(line, skip_digits(line, 6))

RoomDeclId(line) == digits_value(line, 6, skip_digits(line, 6), 0)

DirCodes == {"n", "s", "e", "w"}

\* e is the position after the digits of the from id
LinkDeclTail(line, e) ==
    /\ e + 3 <= Len(line)
    /\ Ch(line, e) = " "
    /\ Ch(line, e + 1) \in DirCodes
    /\ Ch(line, e + 2) = " "
    /\ skip_digits(line, e + 3) = Len(line) + 1

IsLinkDecl(line) ==
    /\ strncmp_eq(line, "link ")
    /\ skip_digits(line, 6) > 6
    /\ LinkDeclTail(line, skip_digits(line, 6))

LinkDeclFrom(line) == digits_value(line, 6, skip_digits(line, 6), 0)

LinkDeclCode(line) == Ch(line, skip_digits(line, 6) + 1)

LinkDeclTo(line) == digits_value(line, skip_digits(line, 6) + 3, Len(line) + 1, 0)

DirOfCode(c) == CASE c = "n" -> NORTH [] c = "s" -> SOUTH [] c = "e" -> EAST [] c = "w" -> WEST

LinkDeclDir(line) == DirOfCode(LinkDeclCode(line))

\* some room line of the file declares the id
Declared(f, id) == \E j \in 1..Len(f) : IsRoomDecl(f[j]) /\ RoomDeclId(f[j]) = id

\* every line that starts with "room" or "link" is well-formed, and both
\* ends of every link are declared somewhere in the file
WellFormedMap(f) ==
    \A i \in 1..Len(f) :
        /\ strncmp_eq(f[i], "room") => IsRoomDecl(f[i])
        /\ strncmp_eq(f[i], "link") =>
              /\ IsLinkDecl(f[i])
              /\ Declared(f, LinkDeclFrom(f[i]))
              /\ Declared(f, LinkDeclTo(f[i]))

RoomLineCount(f) == Cardinality({i \in 1..Len(f) : strncmp_eq(f[i], "room")})

\* main was given one argument and the file could be opened
Opened == argc = 2 /\ file_exists

\* load_world returned NULL and main returned 1 without starting a session
LoadFailed ==
    /\ pc = "exited"
    /\ game = "NULL"
    /\ exit_code = 1
    /\ all_rooms = <<>>
    /\ input_buffer = <<>>

\* the exit of the room that find_room_by_id gives for id, in direction dir
ExitOf(id, dir) == all_rooms[find_room_by_id(all_rooms, id)].exits[dir]

\* every link line of the file has its exit set
LinksResolved ==
    \A i \in 1..Len(file) :
        IsLinkDecl(file[i]) => ExitOf(LinkDeclFrom(file[i]), LinkDeclDir(file[i])) # NULL

-----------------------------------------------------------------------------
(* Claims *)

\* C1 as stated: a map whose room and link lines are all well-formed and
\* whose link ends are all declared loads, with every link resolved.
C1_Original ==
    (pc # "main" /\ Opened /\ WellFormedMap(file)) =>
        (~LoadFailed /\ (pc = "loaded" => LinksResolved))

\* C1, amended: a map whose room and link lines are all well-formed, whose
\* link ends are all declared anywhere in the file, and which has at most
\* MAX_ROOMS room lines, loads, and every link line has its exit set,
\* whether it stands before or after the room lines of its ends.
C1_ForwardReferences ==
    (pc # "main" /\ Opened /\ WellFormedMap(file) /\ RoomLineCount(file) <= MAX_ROOMS) =>
        (~LoadFailed /\ (pc = "loaded" => LinksResolved))

\* C1 witness: a loaded map in which a link line stands before the room line
\* of one of its ends.
C1_Witness ==
    /\ pc = "loaded"
    /\ WellFormedMap(file)
    /\ LinksResolved
    /\ \E i, j \in 1..Len(file) :
          /\ i < j
          /\ IsLinkDecl(file[i])
          /\ IsRoomDecl(file[j])
          /\ RoomDeclId(file[j]) \in {LinkDeclFrom(file[i]), LinkDeclTo(file[i])}

\* the file's last link line for the from id and direction of line i
LastLinkFor(i) ==
    /\ IsLinkDecl(file[i])
    /\ ~\E j \in (i + 1)..Len(file) :
           /\ IsLinkDecl(file[j])
           /\ LinkDeclFrom(file[j]) = LinkDeclFrom(file[i])
           /\ LinkDeclCode(file[j]) = LinkDeclCode(file[i])

\* every exit that is set is the exit some link line declares
OnlyLinkedExits ==
    \A r \in 1..Len(all_rooms), d \in Directions :
        all_rooms[r].exits[d] # NULL =>
            \E i \in 1..Len(file) :
                /\ IsLinkDecl(file[i])
                /\ LinkDeclDir(file[i]) = d
                /\ find_room_by_id(all_rooms, LinkDeclFrom(file[i])) = r
                /\ find_room_by_id(all_rooms, LinkDeclTo(file[i])) = all_rooms[r].exits[d]

\* C2 as stated: after a successful load the exit of every link line's from
\* room in its direction is its to room, and no other exit is set.
C2_Original ==
    pc = "loaded" =>
        /\ \A i \in 1..Len(file) :
              IsLinkDecl(file[i]) =>
                  ExitOf(LinkDeclFrom(file[i]), LinkDeclDir(file[i]))
                      = find_room_by_id(all_rooms, LinkDeclTo(file[i]))
        /\ OnlyLinkedExits

\* C2, amended: after a successful load, for every link line (from, dir, to)
\* that no later link line with the same from and dir follows, the exit in
\* direction dir of the room find_room_by_id gives for from is the room it
\* gives for to; and every exit that is set is declared by some link line,
\* so the way back stays empty unless a link line declares it.
C2_LinksAreDirected ==
    pc = "loaded" =>
        /\ \A i \in 1..Len(file) :
              LastLinkFor(i) =>
                  ExitOf(LinkDeclFrom(file[i]), LinkDeclDir(file[i]))
                      = find_room_by_id(all_rooms, LinkDeclTo(file[i]))
        /\ OnlyLinkedExits

\* C2 witness: a loaded link between two different rooms whose to room has
\* no exit at all.
C2_Witness ==
    /\ pc = "loaded"
    /\ \E i \in 1..Len(file) :
          /\ LastLinkFor(i)
          /\ LinkDeclFrom(file[i]) # LinkDeclTo(file[i])
          /\ ExitOf(LinkDeclFrom(file[i]), LinkDeclDir(file[i]))
                = find_room_by_id(all_rooms, LinkDeclTo(file[i]))
          /\ \A d \in Directions : ExitOf(LinkDeclTo(file[i]), d) = NULL

\* C3: while the GameState is live (from the return of load_world to
\* cleanup), every exit that is set is a room of all_rooms.
C3_NoDanglingExits ==
    game = "live" =>
        \A r \in 1..Len(all_rooms), d \in Directions :
            all_rooms[r].exits[d] \in 0..Len(all_rooms)

\* C3 witness: a session that has dispatched a command in a world with exits.
C3_Witness ==
    /\ game = "live"
    /\ pc = "loop"
    /\ input_buffer # <<>>
    /\ \E r \in 1..Len(all_rooms), d \in Directions : all_rooms[r].exits[d] # NULL

\* C4 as stated: after a successful load no two rooms share an id and
\* find_room_by_id gives every room for its own id.
C4_UniqueIds ==
    pc = "loaded" =>
        /\ \A r, q \in 1..Len(all_rooms) : r # q => all_rooms[r].id # all_rooms[q].id
        /\ \A r \in 1..Len(all_rooms) : find_room_by_id(all_rooms, all_rooms[r].id) = r

\* a room line, as parse_room reads it, declares the id
ParsedRoomId(f, id) ==
    \E j \in 1..Len(f) :
        strncmp_eq(f[j], "room") /\ sscanf_room(f[j]).n = 2 /\ sscanf_room(f[j]).id = id

\* a link line, as parse_link reads it, names an id no room line declares
UndeclaredLink(f) ==
    \E i \in 1..Len(f) :
        /\ strncmp_eq(f[i], "link")
        /\ sscanf_link(f[i]).n = 3
        /\ \/ ~ParsedRoomId(f, sscanf_link(f[i]).from_id)
           \/ ~ParsedRoomId(f, sscanf_link(f[i]).to_id)

\* C5: a link line that names a from id or a to id no room line declares
\* makes load_world return NULL and main return 1 before any input is read.
C5_UndeclaredLinkFails ==
    (pc # "main" /\ Opened /\ UndeclaredLink(file)) => LoadFailed

\* C5 witness: a failed load of a file whose only fault is such a link.
C5_Witness ==
    /\ LoadFailed
    /\ Opened
    /\ UndeclaredLink(file)
    /\ RoomLineCount(file) \in 1..MAX_ROOMS
    /\ \A i \in 1..Len(file) :
          /\ strncmp_eq(file[i], "room") => IsRoomDecl(file[i])
          /\ strncmp_eq(file[i], "link") => IsLinkDecl(file[i])

\* parse_room or parse_link rejects the text of the line
ParseFails(line) ==
    \/ strncmp_eq(line, "room") /\ sscanf_room(line).n # 2
    \/ strncmp_eq(line, "link") /\ sscanf_link(line).n # 3
    \/ strncmp_eq(line, "link") /\ sscanf_link(line).n = 3
          /\ sscanf_link(line).dir_str \notin DirCodes

\* C6: a line that starts with "room" or "link" and fails to parse (room
\* syntax, link syntax or direction code) makes load_world return NULL with
\* every room built so far freed.
C6_StrictLines ==
    (pc # "main" /\ Opened /\ \E i \in 1..Len(file) : ParseFails(file[i])) => LoadFailed

\* C6 witness: a failed load in which a well-formed room line stands before
\* the line that fails to parse, and no link names an undeclared room.
C6_Witness ==
    /\ LoadFailed
    /\ Opened
    /\ ~UndeclaredLink(file)
    /\ \E i, j \in 1..Len(file) : i < j /\ IsRoomDecl(file[i]) /\ ParseFails(file[j])

NoRoomZero == \A r \in 1..Len(all_rooms) : all_rooms[r].id # 0

\* C7: main leaves a loaded world without a room 0 by returning 1, with no
\* input read and nothing dispatched; and main, once returned, does nothing.
C7_NoStartRoom ==
    [][/\ pc # "exited"
       /\ (pc = "loaded" /\ NoRoomZero) =>
              /\ pc' = "exited"
              /\ exit_code' = 1
              /\ input_buffer' = <<>>
              /\ stdin' = stdin]_vars

\* C7 witness: main has returned 1 after freeing a loaded world that had
\* rooms, none with id 0, and no input was read.
C7_Witness ==
    /\ pc = "exited"
    /\ game = "freed"
    /\ exit_code = 1
    /\ input_buffer = <<>>
    /\ ~Declared(file, 0)
    /\ \E i \in 1..Len(file) : IsRoomDecl(file[i])

-----------------------------------------------------------------------------
(* Claims about play.  A step from a state in which the loop is running and *)
(* input is pending is the loop iteration that reads the head of stdin.    *)

Reads(input) ==
    /\ pc = "loop"
    /\ ~game_should_close
    /\ stdin # <<>>
    /\ Head(stdin) = input

\* the transcript old after the messages msgs were logged: the most recent
\* MAX_LOG_MESSAGES of them all, oldest first
TranscriptAfter(old, msgs) ==
    SubSeq(old \o msgs,
           IF Len(old) + Len(msgs) > MAX_LOG_MESSAGES
           THEN Len(old) + Len(msgs) - MAX_LOG_MESSAGES + 1
           ELSE 1,
           Len(old) + Len(msgs))

\* the line look prints for the exits of a room
ExitsLine(room) ==
    IF \A d \in Directions : room.exits[d] = NULL
    THEN "There are no obvious exits."
    ELSE "Exits: "
         \o (IF room.exits[NORTH] # NULL THEN "north " ELSE "")
         \o (IF room.exits[SOUTH] # NULL THEN "south " ELSE "")
         \o (IF room.exits[EAST] # NULL THEN "east " ELSE "")
         \o (IF room.exits[WEST] # NULL THEN "west " ELSE "")

LookLines(room) == <<room.description, ExitsLine(room)>>

\* the go commands with a direction, by short and by long name
GoForms == {
    <<"go n", NORTH>>, <<"go north", NORTH>>, <<"go s", SOUTH>>, <<"go south", SOUTH>>,
    <<"go e", EAST>>, <<"go east", EAST>>, <<"go w", WEST>>, <<"go west", WEST>> }

\* C8: a go command without an argument leaves the player's room as it is
\* and logs "Go where?".
C8_GoWithoutArgument ==
    [][Reads("go") =>
          /\ current_room' = current_room
          /\ log_messages' = TranscriptAfter(log_messages, <<"Go where?">>)]_vars

\* C8 witness: "go" was dispatched onto a full transcript.
C8_Witness ==
    /\ pc = "loop"
    /\ input_buffer = <<"go">>
    /\ Len(log_messages) = MAX_LOG_MESSAGES
    /\ log_messages[Len(log_messages)] = "Go where?"

\* C9: a go command toward an exit that is set puts the player in the room
\* of that exit and then logs the look of that room: its description and
\* its exits line.
C9_GoMoves ==
    [][\A gf \in GoForms :
          (Reads(gf[1]) /\ all_rooms[current_room].exits[gf[2]] # NULL) =>
              /\ current_room' = all_rooms[current_room].exits[gf[2]]
              /\ log_messages' =
                    TranscriptAfter(log_messages,
                        LookLines(all_rooms[all_rooms[current_room].exits[gf[2]]]))]_vars

\* C9 witness: "go north" has moved the player from room 0 to room 1 and
\* the look of room 1 ends the transcript.
C9_Witness ==
    /\ pc = "loop"
    /\ input_buffer = <<"go north">>
    /\ all_rooms[current_room].id = 1
    /\ ExitOf(0, NORTH) = current_room
    /\ Len(log_messages) >= 2
    /\ SubSeq(log_messages, Len(log_messages) - 1, Len(log_messages))
          = LookLines(all_rooms[current_room])

\* C10: a go command with a valid direction toward an empty exit leaves the
\* player's room as it is and logs "You can't go that way.".
C10_GoBlocked ==
    [][\A gf \in GoForms :
          (Reads(gf[1]) /\ all_rooms[current_room].exits[gf[2]] = NULL) =>
              /\ current_room' = current_room
              /\ log_messages' =
                    TranscriptAfter(log_messages, <<"You can't go that way.">>)]_vars

\* C10 witness: "go east" was dispatched in a room without an east exit.
C10_Witness ==
    /\ pc = "loop"
    /\ input_buffer = <<"go east">>
    /\ all_rooms[current_room].exits[EAST] = NULL
    /\ log_messages # <<>>
    /\ log_messages[Len(log_messages)] = "You can't go that way."

\* C11: an input of quit or exit sets game_should_close; the flag, once
\* set, stays set, and with the flag set the one step of main is the
\* teardown: no line is read, nothing is dispatched and nothing is logged.
C11_QuitEndsSession ==
    [][/\ (Reads("quit") \/ Reads("exit")) => game_should_close'
       /\ game_should_close => game_should_close'
       /\ (pc = "loop" /\ game_should_close) =>
             /\ pc' = "exited"
             /\ stdin' = stdin
             /\ input_buffer' = input_buffer
             /\ logged' = logged]_vars

\* C11 witness: main has returned after quit with a typed line left unread.
C11_Witness ==
    /\ pc = "exited"
    /\ exit_code = 0
    /\ game_should_close
    /\ input_buffer = <<"quit">>
    /\ stdin # <<>>

\* C12: while the game lives the transcript has at most MAX_LOG_MESSAGES
\* entries and is the most recent min(k, MAX_LOG_MESSAGES) of the k messages
\* logged so far, oldest first.
C12_BoundedTranscript ==
    game = "live" =>
        /\ Len(log_messages) <= MAX_LOG_MESSAGES
        /\ log_messages = TranscriptAfter(<<>>, logged)

\* C12 witness: more than MAX_LOG_MESSAGES + 2 messages were logged, so the
\* full transcript has lost its oldest entry more than twice.
C12_Witness ==
    /\ game = "live"
    /\ Len(logged) > MAX_LOG_MESSAGES + 2
    /\ Len(log_messages) = MAX_LOG_MESSAGES
    /\ log_messages[1] # logged[1]

\* C13 as stated: the loop iteration that finds the input at its end sets
\* the termination flag, as a quit does.
C13_EndOfInputQuits ==
    [][(pc = "loop" /\ ~game_should_close /\ stdin = <<>>) => game_should_close']_vars

\* the effect of a command that fails: one line of feedback, the flag and
\* the player's room as they were, and the loop ready for the next line
ErrorFeedback(msg) ==
    /\ log_messages' = TranscriptAfter(log_messages, <<msg>>)
    /\ logged' = Append(logged, msg)
    /\ game_should_close' = FALSE
    /\ current_room' = current_room
    /\ pc' = "loop"
    /\ stdin' = Tail(stdin)

\* C14: an unrecognized command, go without an argument, go with a word
\* that is no direction and go toward an empty exit each log one line of
\* feedback, leave the flag clear and the player's room as it is, and leave
\* the loop running.
C14_ErrorsContained ==
    [][/\ Reads("dance") => ErrorFeedback("I don't understand that command.")
       /\ Reads("go") => ErrorFeedback("Go where?")
       /\ Reads("go up") => ErrorFeedback("That's not a valid direction.")
       /\ \A gf \in GoForms :
             (Reads(gf[1]) /\ all_rooms[current_room].exits[gf[2]] = NULL) =>
                 ErrorFeedback("You can't go that way.")]_vars

\* C14 witness: after a go toward an empty exit the loop went on, and the
\* unrecognized command it read next got its feedback too.
C14_Witness ==
    /\ pc = "loop"
    /\ ~game_should_close
    /\ input_buffer = <<"dance">>
    /\ Len(logged) >= 2
    /\ logged[Len(logged)] = "I don't understand that command."
    /\ logged[Len(logged) - 1] = "You can't go that way."

\* the inputs that name a direction to go in, with or without the verb go
MoveForms ==
    GoForms \cup {
        <<"n", NORTH>>, <<"north", NORTH>>, <<"s", SOUTH>>, <<"south", SOUTH>>,
        <<"e", EAST>>, <<"east", EAST>>, <<"w", WEST>>, <<"west", WEST>>,
        <<"GO North", NORTH>> }

\* C15: a loop iteration that changes the player's room has read a go
\* command or a bare direction word whose direction has an exit in the
\* current room, and the new room is the room of that exit.
C15_RoomChangesOnlyByGo ==
    [][(pc = "loop" /\ pc' = "loop" /\ current_room' # current_room) =>
          /\ stdin # <<>>
          /\ \E mf \in MoveForms :
                /\ Head(stdin) = mf[1]
                /\ all_rooms[current_room].exits[mf[2]] # NULL
                /\ current_room' = all_rooms[current_room].exits[mf[2]]]_vars

\* C15 witness: the player, moved away from room 0 by earlier commands, has
\* looked and is where it was.
C15_Witness ==
    /\ pc = "loop"
    /\ input_buffer = <<"look">>
    /\ all_rooms[current_room].id = 2
    /\ Len(logged) > 7

\* C16: in every state of the game loop the rooms, their ids, descriptions
\* and exits are those load_world built from the file.
C16_WorldFrozen ==
    pc = "loop" => all_rooms = load_world(file_exists, file).rooms

\* C16 witness: three moves through the example map have been made and the
\* four rooms are as loaded.
C16_Witness ==
    /\ pc = "loop"
    /\ input_buffer = <<"w">>
    /\ Len(all_rooms) = 4
    /\ all_rooms[current_room].id = 1
    /\ Len(logged) = 9
    /\ all_rooms = load_world(file_exists, file).rooms

DirectionWords == {"n", "north", "s", "south", "e", "east", "w", "west"}

\* C17: a loop iteration that reads a bare direction word leaves the
\* player's room, the transcript and the flag as the dispatch of "go "
\* followed by that word would leave them.
C17_BareDirectionIsGo ==
    [][\A w \in DirectionWords :
          Reads(w) =>
              /\ current_room' = parse_and_execute_command(GState, "go " \o w).current_room
              /\ log_messages' = parse_and_execute_command(GState, "go " \o w).log_messages
              /\ game_should_close' =
                    parse_and_execute_command(GState, "go " \o w).game_should_close]_vars

\* C17 witness: the bare word "e" has moved the player from room 1 to room
\* 2 and logged the look of room 2.
C17_Witness ==
    /\ pc = "loop"
    /\ input_buffer = <<"e">>
    /\ all_rooms[current_room].id = 2
    /\ ExitOf(1, EAST) = current_room
    /\ SubSeq(logged, Len(logged) - 1, Len(logged)) = LookLines(all_rooms[current_room])

\* C18: look (or l) logs the description of the current room and then one
\* line, the exits line of the room, and changes nothing else.
C18_Look ==
    [][(Reads("look") \/ Reads("l")) =>
          /\ logged' = logged \o LookLines(all_rooms[current_room])
          /\ log_messages' =
                TranscriptAfter(log_messages, LookLines(all_rooms[current_room]))
          /\ current_room' = current_room
          /\ all_rooms' = all_rooms
          /\ game_should_close' = game_should_close
          /\ pc' = pc]_vars

\* C18 witness: look in a room whose exits are south and east.
C18_Witness ==
    /\ pc = "loop"
    /\ input_buffer = <<"look">>
    /\ all_rooms[current_room].exits[NORTH] = NULL
    /\ all_rooms[current_room].exits[SOUTH] # NULL
    /\ all_rooms[current_room].exits[EAST] # NULL
    /\ logged[Len(logged)] = "Exits: south east "
    /\ logged[Len(logged) - 1] = all_rooms[current_room].description

\* C19: main returns 0 or 1; it returns 0 exactly when it built a game from
\* a file that has a room 0 and the session set the termination flag; the
\* session starts in room 0; and with an argument count other than two
\* fopen is never called.
C19_ExitCodes ==
    /\ pc = "exited" =>
          /\ exit_code \in {0, 1}
          /\ exit_code = 0 <=>
                /\ argc = 2
                /\ file_exists
                /\ game = "freed"
                /\ ParsedRoomId(file, 0)
                /\ game_should_close
    /\ (pc = "loop" /\ input_buffer = <<>>) => all_rooms[current_room].id = 0
    /\ argc # 2 => ~fopen_called /\ game = "NULL"

\* C19 witness: main has returned 0 after a session that ended with quit.
C19_Witness ==
    /\ pc = "exited"
    /\ exit_code = 0
    /\ game = "freed"
    /\ fopen_called
    /\ input_buffer = <<"quit">>
    /\ stdin = <<>>

-----------------------------------------------------------------------------
(* Claims about the multithreaded file analyzer *)

\* the worker is between pthread_mutex_lock and pthread_mutex_unlock
InCritical(t) ==
    t_pc[t] \in {"read_chars", "write_chars", "read_words", "write_words",
                 "read_lines", "write_lines", "unlock"}

\* the sum of the workers' local counts named f, over the workers 0 .. t
RECURSIVE SumLocal(_, _)
SumLocal(f, t) == IF t < 0 THEN 0 ELSE local[t][f] + SumLocal(f, t - 1)

\* C20: no two workers are in the critical section at once, a worker in it
\* holds the mutex, and once main has joined all workers each shared total
\* is the sum of the workers' local counts.
C20_NoLostUpdate ==
    /\ \A t, u \in Threads : (t # u /\ InCritical(t)) => ~InCritical(u)
    /\ \A t \in Threads : InCritical(t) => g_mutex = "locked"
    /\ joined = NUM_THREADS =>
          /\ g_counts.total_chars = SumLocal("local_chars", NUM_THREADS - 1)
          /\ g_counts.total_words = SumLocal("local_words", NUM_THREADS - 1)
          /\ g_counts.total_lines = SumLocal("local_lines", NUM_THREADS - 1)

\* C20 witness: all workers are joined, each of them had something to add,
\* and main has reported the totals.
C20_Witness ==
    /\ an_pc = "exited"
    /\ an_exit_code = 0
    /\ joined = NUM_THREADS
    /\ \A t \in Threads : local[t].local_chars > 0
    /\ Cardinality({t \in Threads : local[t].local_words > 0}) >= 2
    /\ g_counts.total_lines > 0

\* the counts of one pass of the loop of analyze_chunk over the whole file
SequentialCounts == count_chunk(file_buffer, 0, Len(file_buffer))

\* C21: once main has reported the totals, they are the counts that one
\* sequential pass of the counting rule over the whole file produces.
C21_SequentialTotals ==
    (an_pc = "exited" /\ an_exit_code = 0) =>
        /\ g_counts.total_chars = SequentialCounts.local_chars
        /\ g_counts.total_words = SequentialCounts.local_words
        /\ g_counts.total_lines = SequentialCounts.local_lines

\* the set of the elements of the sequence q
Elems(q) == {q[i] : i \in 1..Len(q)}

\* C24: every string ui_log has stored is either still in the transcript or
\* has been freed, never both and never freed twice; before cleanup the
\* freed strings are the evicted ones, oldest first, and the transcript
\* holds the newest; after cleanup every stored string has been freed.
C24_ReleasedOnce ==
    /\ \A i, j \in 1..Len(freed) : freed[i] = freed[j] => i = j
    /\ Elems(freed) \cap Elems(log_ptrs) = {}
    /\ Elems(freed) \cup Elems(log_ptrs) = 1..Len(logged)
    /\ Len(log_ptrs) = Len(log_messages)
    /\ game = "live" =>
          /\ \A i \in 1..Len(freed) : freed[i] = i
          /\ \A i \in 1..Len(log_ptrs) : log_ptrs[i] = Len(freed) + i
          /\ Len(logged) > MAX_LOG_MESSAGES => Len(log_ptrs) = MAX_LOG_MESSAGES
    /\ game = "freed" => Elems(freed) = 1..Len(logged)

\* C24 witness: the session is over and cleanup has run, after more messages
\* than the transcript holds: some were freed on eviction, the others by
\* cleanup.
C24_Witness ==
    /\ pc = "exited"
    /\ game = "freed"
    /\ Len(logged) > MAX_LOG_MESSAGES
    /\ Len(freed) = Len(logged)

\* the file f without its line i
Remove(f, i) == SubSeq(f, 1, i - 1) \o SubSeq(f, i + 1, Len(f))

\* the load of the file without its line i ends as the load of the file did:
\* it fails if that failed, and gives the same rooms and exits if not
SameLoadWithout(i) ==
    /\ pc = "loaded" =>
          load_world(TRUE, Remove(file, i)) = [ok |-> TRUE, rooms |-> all_rooms]
    /\ (LoadFailed /\ Opened) => ~load_world(TRUE, Remove(file, i)).ok

\* the first word of the line
FirstWord(line) ==
    SubSeq(line, skip_ws(line, 1), skip_word(line, skip_ws(line, 1)) - 1)

\* C25 as stated: a line whose first word is neither the keyword room nor
\* the keyword link, so that it declares neither a room nor a link, can be
\* removed from (or inserted into) a map file without changing the outcome
\* of the load.
C25_Original ==
    \A i \in 1..Len(file) :
        FirstWord(file[i]) \notin {"room", "link"} => SameLoadWithout(i)

\* the loader passes the line to neither parse_room nor parse_link
Ignored(line) == ~strncmp_eq(line, "room") /\ ~strncmp_eq(line, "link")

\* C25: a line that does not start with the four characters "room" or
\* "link" (a blank line among them) can be removed from, or inserted into,
\* a map file anywhere without changing whether the load succeeds or the
\* rooms and exits it gives.
C25_IgnoredLines ==
    \A i \in 1..Len(file) : Ignored(file[i]) => SameLoadWithout(i)

\* C25 witness: a loaded map with an ignored line between a room line and a
\* link line whose exit is set.
C25_Witness ==
    /\ pc = "loaded"
    /\ \E i, j, k \in 1..Len(file) :
         /\ i < j /\ j < k
         /\ IsRoomDecl(file[i])
         /\ Ignored(file[j])
         /\ IsLinkDecl(file[k])
         /\ ExitOf(LinkDeclFrom(file[k]), LinkDeclDir(file[k])) # NULL

\* C27: while main is in the game loop, whatever commands were given, the
\* player's current room is not NULL and is a room of the loaded world.
C27_CurrentRoomInWorld ==
    pc = "loop" =>
        /\ game = "live"
        /\ current_room # NULL
        /\ current_room \in 1..Len(all_rooms)

\* C27 witness: in the loop, after a move away from the start room and a go
\* into a direction without an exit, with input still to come.
C27_Witness ==
    /\ pc = "loop"
    /\ stdin # <<>>
    /\ current_room # start_room(all_rooms)
    /\ \E i \in 1..Len(logged) : logged[i] = "You can't go that way."

\* the link lines i and j, i before j, name the same from room and direction
SameExit(i, j) ==
    /\ i < j
    /\ IsLinkDecl(file[i])
    /\ IsLinkDecl(file[j])
    /\ LinkDeclFrom(file[i]) = LinkDeclFrom(file[j])
    /\ LinkDeclCode(file[i]) = LinkDeclCode(file[j])

\* C28: link lines that name the same from room and direction do not fail
\* the load of an otherwise loadable map, and after the load the exit is the
\* target of the last of them in file order.
C28_LastLinkWins ==
    /\ (/\ pc # "main"
        /\ Opened
        /\ WellFormedMap(file)
        /\ RoomLineCount(file) <= MAX_ROOMS
        /\ \E i, j \in 1..Len(file) : SameExit(i, j)) => ~LoadFailed
    /\ pc = "loaded" =>
          \A i, j \in 1..Len(file) :
              (SameExit(i, j) /\ LastLinkFor(j)) =>
                  ExitOf(LinkDeclFrom(file[j]), LinkDeclDir(file[j]))
                      = find_room_by_id(all_rooms, LinkDeclTo(file[j]))

\* C28 witness: a loaded map with two link lines for the same exit and
\* different targets, the exit being the target of the later line.
C28_Witness ==
    /\ pc = "loaded"
    /\ \E i, j \in 1..Len(file) :
         /\ SameExit(i, j)
         /\ LastLinkFor(j)
         /\ LinkDeclTo(file[i]) # LinkDeclTo(file[j])
         /\ ExitOf(LinkDeclFrom(file[j]), LinkDeclDir(file[j]))
                = find_room_by_id(all_rooms, LinkDeclTo(file[j]))
         /\ ExitOf(LinkDeclFrom(file[j]), LinkDeclDir(file[j]))
                # find_room_by_id(all_rooms, LinkDeclTo(file[i]))

\* num_rooms after pass 1 has read the first k lines of the file
RoomsAfter(k) == Len(pass_rooms(file, 1, k, [ok |-> TRUE, rooms |-> <<>>]).rooms)

\* C29: the world never holds more than MAX_ROOMS rooms, neither while pass 1
\* reads the file line by line nor afterwards, and a map with more than
\* MAX_ROOMS room lines fails to load, well-formed or not.
C29_RoomLimit ==
    /\ Len(all_rooms) \in 0..MAX_ROOMS
    /\ (pc # "main" /\ Opened) =>
          /\ \A k \in 0..Len(file) : RoomsAfter(k) \in 0..MAX_ROOMS
          /\ RoomLineCount(file) > MAX_ROOMS => LoadFailed

\* C29 witness: a failed load of a map of MAX_ROOMS + 1 room lines, all of
\* them well-formed.
C29_Witness ==
    /\ LoadFailed
    /\ Opened
    /\ WellFormedMap(file)
    /\ RoomLineCount(file) = MAX_ROOMS + 1
    /\ RoomsAfter(MAX_ROOMS) = MAX_ROOMS

\* the child forked for a command has not terminated yet
ChildAlive == p_pc["child"] \in {"exec", "running"}

\* C22: while the child forked for a command has not terminated, the shell
\* stays in waitpid: no step prints a prompt of the shell or reads a command
\* for it.
C22_WaitsForChild ==
    /\ [](ChildAlive => p_pc["shell"] = "wait")
    /\ [][ChildAlive => /\ prompts'["shell"] = prompts["shell"]
                        /\ reads'["shell"] = reads["shell"]]_vars

\* C22 witness: the second child of the session is running its program, the
\* shell is in waitpid, and the input holds a further command.
C22_Witness ==
    /\ forks = 2
    /\ p_pc["child"] = "running"
    /\ p_pc["shell"] = "wait"
    /\ sh_stdin # <<>>

\* the process is in the code of the shell's loop
InShellLoop(p) == p_pc[p] \in {"loop", "read", "fork", "wait"}

\* C26: the forked child is never in the shell's loop: it prints no prompt
\* and reads no command; when its execvp fails it terminates with status 1;
\* so at most one process, the shell, is ever in the read loop.
C26_ChildNeverReads ==
    /\ ~InShellLoop("child")
    /\ prompts["child"] = 0
    /\ reads["child"] = 0
    /\ Cardinality({p \in Procs : InShellLoop(p)}) <= 1
    /\ (p_pc["child"] = "terminated" /\ p_args["child"][1] \notin Programs) =>
          p_status["child"] = 1

\* C26 witness: execvp has failed in the child, which has terminated with
\* status 1 while the shell waits and the input holds a further command.
C26_Witness ==
    /\ p_pc["child"] = "terminated"
    /\ p_args["child"] = <<"nosuch">>
    /\ p_status["child"] = 1
    /\ p_pc["shell"] = "wait"
    /\ sh_stdin # <<>>

\* the texts of the lines from the node hd along next in the heap h
BufferText(h, hd) ==
    [k \in 1..Len(chain(h, hd, Cardinality(NodeIds) + 1)) |->
        h[chain(h, hd, Cardinality(NodeIds) + 1)[k]].text]

\* the step is a call of op by the command loop that returns to it
CallOf(op) == ed_pc = "loop" /\ ed_pc' = "loop" /\ ed_last'.op = op

\* C23: a call insert_line(n, text) with 1 <= n <= line_count + 1 puts text
\* before line n: the lines before n stay, line n is text, the former lines
\* n and above follow in their order, and line_count grows by one.
C23_InsertBefore ==
    [][(CallOf("insert_line") /\ ed_last'.n \in 1..(line_count + 1)) =>
          /\ BufferText(heap', head')
                = SubSeq(BufferText(heap, head), 1, ed_last'.n - 1)
                    \o <<ed_last'.text>>
                    \o SubSeq(BufferText(heap, head), ed_last'.n, line_count)
          /\ line_count' = line_count + 1]_vars

\* C23 witness: insert_line(2, text) has put its text between two lines.
C23_Witness ==
    /\ ed_pc = "loop"
    /\ ed_last.op = "insert_line"
    /\ ed_last.n = 2
    /\ line_count = 3
    /\ BufferText(heap, head)[2] = ed_last.text
    /\ BufferText(heap, head)[1] # BufferText(heap, head)[3]

\* the list from head along next
BufferChain == chain(heap, head, Cardinality(NodeIds) + 1)

\* the buffer is a well-formed doubly-linked list of line_count nodes
WellFormedBuffer ==
    /\ (head = NULL) <=> (tail = NULL)
    /\ (head = NULL) <=> (line_count = 0)
    /\ head # NULL => heap[head].used /\ heap[head].prev = NULL
    /\ tail # NULL => heap[tail].used /\ heap[tail].next = NULL
    /\ \A n \in NodeIds :
          (heap[n].used /\ heap[n].next # NULL) => heap[heap[n].next].prev = n
    /\ line_count = Len(BufferChain)
    /\ \A i, j \in 1..Len(BufferChain) : BufferChain[i] = BufferChain[j] => i = j
    /\ tail # NULL => BufferChain[Len(BufferChain)] = tail

\* C30: in every state the buffer is a well-formed doubly-linked list whose
\* length is line_count, and a call of insert_line or delete_line with an
\* invalid line number leaves the list and line_count as they are.
C30_WellFormedList ==
    /\ []WellFormedBuffer
    /\ [][(\/ CallOf("insert_line") /\ ed_last'.n \notin 1..(line_count + 1)
           \/ CallOf("delete_line") /\ ed_last'.n \notin 1..line_count) =>
              UNCHANGED <<heap, head, tail, line_count>>]_vars

\* C30 witness: after edits that left two lines, delete_line was called with
\* a line number beyond the last line.
C30_Witness ==
    /\ ed_pc = "loop"
    /\ modified
    /\ line_count = 2
    /\ ed_last.op = "delete_line"
    /\ ed_last.n > line_count
    /\ WellFormedBuffer

====
